---------------------------- MODULE Spec2Model ----------------------------
(***************************************************************************)
(* Verification model of the bag3_magnetics coil geometry generators.      *)
(*                                                                         *)
(* The layout generators are deterministic functions from a parameter      *)
(* record to a set of shapes.  Each generator is modelled as a small       *)
(* state machine that is started with parameters drawn from bounded sets   *)
(* and then steps through the blocks of its draw_layout method, adding     *)
(* shapes (paths, vias, sub-instances) to the layout or raising an error.  *)
(*                                                                         *)
(* Coordinates are layout units (integers).  Python sequences are 0-based; *)
(* TLA+ sequences are 1-based, so Python v[i] is written At(v, i).         *)
(***************************************************************************)
EXTENDS Integers, Sequences, FiniteSets, TLC

VARIABLES
    prog,          \* which entry point was called
    params,        \* the parameters of the call
    pc,            \* position inside the called method
    err,           \* "none", or the check that raised
    vertices,      \* IndCore.draw_layout: vertices (one polygon per turn)
    tidx,          \* loop index of the running loop
    turn_coords,   \* IndCore.draw_layout: turn_coords
    insts,         \* sub-instances added with add_instance
    paths,         \* paths added with add_path: [lay, pts]
    vias,          \* vias added with add_via: [bot, top, bbox]
    term_coords,   \* IndCore._term_coords
    actual_bbox,   \* IndCore._actual_bbox
    loc,           \* locals of the older IndCore.draw_layout (inductor_bak)
    feasibility,   \* IndTemplate._feasibility
    ret            \* return value of a function called on its own

vars == <<prog, params, pc, err, vertices, tidx, turn_coords, insts, paths,
          vias, term_coords, actual_bbox, loc, feasibility, ret>>

---------------------------------------------------------------------------
(* Bounds of the model.                                                    *)

MaxTurns == 4
MaxWidth == 2
MaxSpacing == 2
MaxTermSp == 2
RadiusStep == 4
MaxRadiusSteps == 4
MaxLayer == 3

RadiusSet == {RadiusStep * k : k \in 1..MaxRadiusSteps}

---------------------------------------------------------------------------
(* Shapes of the layout.                                                   *)

\* add_path(lp, width, pts, ...) on layer lay
Path(lay, pts) == [lay |-> lay, pts |-> pts]

\* add_via(bbox, bot_lp, top_lp, ...)
ViaRec(bot, top, bbox) == [bot |-> bot, top |-> top, bbox |-> bbox]

---------------------------------------------------------------------------
(* Arithmetic helpers.                                                     *)

\* Python a // b for b > 0 (floor division)
FloorDiv(a, b) == a \div b

\* ceiling of a / b for b > 0
CeilDiv(a, b) == -((-a) \div b)

Abs(a) == IF a < 0 THEN -a ELSE a

\* 0-based indexing of a Python list
At(s, i) == s[i + 1]

\* Python s[-1]
Last(s) == s[Len(s)]

\* Python s[a:b]
Slice(s, a, b) == SubSeq(s, a + 1, b)

\* Fixed-point scale of the trigonometric constants below
SCALE == 1000000

\* tan(pi/8) = sqrt(2) - 1, scaled
TAN8 == 414214

\* nearest integer of num / SCALE, ties away from zero
RoundHalfAway(num) ==
    IF num >= 0 THEN (2 * num + SCALE) \div (2 * SCALE)
    ELSE -((2 * (-num) + SCALE) \div (2 * SCALE))

---------------------------------------------------------------------------
(* compute_vertices(n_sides, n_turns, radius_x, radius_y, width, spacing)  *)
(* of layout/inductor/util.py, as IndCore and TcoilDiffCore call it.       *)
(* Vertex i of a turn is at phase -pi/2 + pi/n + i * 2 pi/n around the     *)
(* centre (radius_x + width // 2, radius_x + width // 2); the edges are at *)
(* distance radius_x - t * (width + spacing) from the centre; the upper    *)
(* half of the vertices is shifted up by 2 * (radius_y - radius_x).        *)

\* (x, y) of vertex i relative to the centre, for edge distance r
VertexRel(n_sides, r, i) ==
    LET t == RoundHalfAway(r * TAN8)
    IN  IF n_sides = 4
        THEN CASE i = 0 -> <<r, -r>>
               [] i = 1 -> <<r, r>>
               [] i = 2 -> <<-r, r>>
               [] OTHER -> <<-r, -r>>
        ELSE CASE i = 0 -> <<t, -r>>
               [] i = 1 -> <<r, -t>>
               [] i = 2 -> <<r, t>>
               [] i = 3 -> <<t, r>>
               [] i = 4 -> <<-t, r>>
               [] i = 5 -> <<-r, t>>
               [] i = 6 -> <<-r, -t>>
               [] OTHER -> <<-t, -r>>

compute_vertices(n_sides, n_turns, radius_x, radius_y, width, spacing) ==
    LET off == radius_x + FloorDiv(width, 2)
        stretch == 2 * (radius_y - radius_x)
        upper(i) == (4 * i >= n_sides) /\ (4 * i < 3 * n_sides)
        vert(t, i) ==
            LET rel == VertexRel(n_sides, radius_x - t * (width + spacing), i)
            IN  <<off + rel[1],
                  off + rel[2] + (IF upper(i) THEN stretch ELSE 0)>>
    IN  [t \in 1..n_turns |-> [i \in 1..n_sides |-> vert(t - 1, i - 1)]]

---------------------------------------------------------------------------
(* get_octpath_coord and round_up of layout/inductor/util.py (the copy in  *)
(* layout/inductor_bak/util.py is identical).                              *)
(*                                                                         *)
(* The function works in floating point on the phases                      *)
(* init_phase + i * step_phase.  For n_side = 4 and n_side = 8, the side   *)
(* counts the generators use, the sines and cosines of these phases are    *)
(* +-sqrt(2)/2, resp. +-cos(pi/8) and +-sin(pi/8); they are kept here as   *)
(* fixed-point numbers with SCALE units per 1.                             *)

\* sqrt(2)/2, cos(pi/8), sin(pi/8), scaled
HALF_SQRT2 == 707107
COS8 == 923880
SIN8 == 382683
\* 1 / sin(-init_phase): sqrt(2) for n_side = 4, 1 / cos(pi/8) for 8, scaled
INV_COS4 == 1414214
INV_COS8 == 1082392

\* np.cos(init_phase + step_phase * i), scaled
CosPhase(n_side, i) ==
    IF n_side = 4
    THEN (IF i \in {0, 1} THEN HALF_SQRT2 ELSE -HALF_SQRT2)
    ELSE CASE i \in {0, 3} -> SIN8
           [] i \in {1, 2} -> COS8
           [] i \in {4, 7} -> -SIN8
           [] OTHER -> -COS8

\* np.sin(init_phase + step_phase * i), scaled
SinPhase(n_side, i) ==
    IF n_side = 4
    THEN (IF i \in {1, 2} THEN HALF_SQRT2 ELSE -HALF_SQRT2)
    ELSE CASE i \in {0, 7} -> -COS8
           [] i \in {1, 6} -> -SIN8
           [] i \in {2, 5} -> SIN8
           [] OTHER -> COS8

\* 1 / np.sin(-init_phase), scaled
InvSinInit(n_side) == IF n_side = 4 THEN INV_COS4 ELSE INV_COS8

\* faulty variant of round_up: the nearest integer, ties away from zero
round_up_Nearest(num) == RoundHalfAway(num)

\* round_up(val_f) for val_f = num / SCALE: ceil if val_f > 0, else floor
round_up(num) ==
    IF num > 0 THEN CeilDiv(num, SCALE) ELSE FloorDiv(num, SCALE)

\* line 1024
TurnRad(radius, turn, n_side, width, spacing) ==
    round_up(radius * SCALE - turn * (width + spacing) * InvSinInit(n_side))

\* line 1025
Offset(radius, n_side, width) ==
    round_up(radius * SinPhase(n_side, n_side \div 2)) + FloorDiv(width, 2)

\* lines 1028-1032: the vertices of the turn
Coord(radius, turn, n_side, width, spacing) ==
    LET turn_rad == TurnRad(radius, turn, n_side, width, spacing)
        offset == Offset(radius, n_side, width)
    IN  [k \in 1..n_side |->
            <<round_up(turn_rad * CosPhase(n_side, k - 1)) + offset,
              round_up(turn_rad * SinPhase(n_side, k - 1)) + offset>>]

\* line 1069: the two ends of the lead gap of width bot_open, on the
\* bottom edge (y)
LeadCoord0(bot_open, offset, y) ==
    <<<<FloorDiv(-bot_open, 2) + offset, y>>,
      <<FloorDiv(bot_open, 2) + offset, y>>>>

\* faulty variant of Edge: the last edge does not return to vertex 0
Edge_NoWrap(coord, i, n_side) ==
    <<<<At(coord, i), At(coord, IF i + 1 < n_side THEN i + 1 ELSE i)>>>>

\* lines 1095-1098: the unbroken edge i, from vertex i to vertex i + 1 and
\* from the last vertex to vertex 0
Edge(coord, i, n_side) ==
    <<<<At(coord, i), At(coord, (i + 1) % n_side)>>>>

\* path_coord.append over the edges: the concatenation of the segment
\* lists of a list
RECURSIVE Flatten(_)
Flatten(ss) ==
    IF ss = <<>> THEN <<>> ELSE Head(ss) \o Flatten(Tail(ss))

(* The bridge widths of lines 1044-1046, 1053-1055 and 1060-1062 are the   *)
(* floating-point value of an expression that is exactly spacing + width   *)
(* in real numbers, ((turn_rad + p/c) * c - turn_rad * c and               *)
(* turn_rad * c - (turn_rad - p/c) * c); round_up sends a result that is   *)
(* a rounding error above the integer to the next integer, so the result   *)
(* is spacing + width or spacing + width + 1 depending on the rounding     *)
(* errors.  fz1 (lines 1044-1046 and 1053-1055, the same expression) and   *)
(* fz0 (lines 1060-1062) are that choice, 0 or 1.                          *)
get_octpath_coord(radius, turn, n_side, width, spacing, bot_open, top_open, via_width, mode, fz0, fz1) ==
    LET out(turn_rad, offset, coord) ==
    LET half == n_side \div 2
        ty == At(coord, half)[2]
        by == At(coord, 0)[2]
        vext == width + FloorDiv(via_width - width, 2)
        \* lines 1037-1042
        top_bdg0 == round_up(turn_rad * SinPhase(n_side, half)
                             - (turn_rad - (spacing + width)) * SCALE)
        top_coord0 == <<<<FloorDiv(-top_bdg0, 2) + offset, ty>>,
                        <<FloorDiv(top_bdg0, 2) + offset, ty>>>>
        top_r_coord0 == <<FloorDiv(top_bdg0, 2) + vext + offset, ty>>
        top_l_coord0 == <<FloorDiv(-top_bdg0, 2) - vext + offset, ty>>
        \* lines 1044-1049
        top_bdg1 == spacing + width + fz1
        top_coord1 == <<<<FloorDiv(-top_bdg1, 2) + offset, ty>>,
                        <<FloorDiv(top_bdg1, 2) + offset, ty>>>>
        top_r_coord1 == <<FloorDiv(top_bdg1, 2) + vext + offset, ty>>
        top_l_coord1 == <<FloorDiv(-top_bdg1, 2) - vext + offset, ty>>
        \* lines 1053-1058
        bot_bdg0 == spacing + width + fz1
        bot_coord0 == <<<<FloorDiv(-bot_bdg0, 2) + offset, by>>,
                        <<FloorDiv(bot_bdg0, 2) + offset, by>>>>
        bot_r_coord0 == <<FloorDiv(bot_bdg0, 2) + vext + offset, by>>
        bot_l_coord0 == <<FloorDiv(-bot_bdg0, 2) - vext + offset, by>>
        \* lines 1060-1065
        bot_bdg1 == spacing + width + fz0
        bot_coord1 == <<<<FloorDiv(-bot_bdg1, 2) + offset, by>>,
                        <<FloorDiv(bot_bdg1, 2) + offset, by>>>>
        bot_r_coord1 == <<FloorDiv(bot_bdg1, 2) + vext + offset, by>>
        bot_l_coord1 == <<FloorDiv(-bot_bdg1, 2) - vext + offset, by>>
        \* lines 1069-1083
        lead_coord0 == LeadCoord0(bot_open, offset, by)
        bot_open_coord == lead_coord0
        top_open_coord == <<<<FloorDiv(-top_open, 2) + offset, ty>>,
                            <<FloorDiv(top_open, 2) + offset, ty>>>>
        lx == At(coord, (n_side * 3) \div 4)[1]
        rx == At(coord, n_side \div 4)[1]
        lead_coord270 == <<<<lx, FloorDiv(-bot_open, 2) + offset>>,
                           <<lx, FloorDiv(bot_open, 2) + offset>>>>
        left_open_coord == lead_coord270
        right_open_coord == <<<<rx, FloorDiv(-top_open, 2) + offset>>,
                              <<rx, FloorDiv(top_open, 2) + offset>>>>
        \* the unbroken edge i
        edge(i) == Edge(coord, i, n_side)
        seg(a, b) == <<a, b>>
        topbrk(i) == i = half - 1
        botbrk(i) == i = n_side - 1
        \* lines 1093-1254: the segments contributed by edge i
        segs(i) ==
            CASE mode = 0 -> edge(i)
              [] mode = 1 ->
                   IF botbrk(i)
                   THEN <<seg(At(coord, n_side - 1), lead_coord0[1]),
                          seg(lead_coord0[2], At(coord, 0))>>
                   ELSE edge(i)
              [] mode = 2 ->
                   IF topbrk(i)
                   THEN <<seg(At(coord, half - 1), top_r_coord0),
                          seg(top_coord0[1], At(coord, half))>>
                   ELSE IF botbrk(i)
                   THEN <<seg(At(coord, n_side - 1), lead_coord0[1]),
                          seg(lead_coord0[2], At(coord, 0))>>
                   ELSE edge(i)
              [] mode = 3 ->
                   IF topbrk(i)
                   THEN <<seg(At(coord, half - 1), top_coord1[2]),
                          seg(top_l_coord1, At(coord, half))>>
                   ELSE edge(i)
              [] mode = 4 ->
                   IF botbrk(i)
                   THEN <<seg(At(coord, n_side - 1), bot_l_coord0),
                          seg(bot_coord0[2], At(coord, 0))>>
                   ELSE edge(i)
              [] mode = 5 ->
                   IF topbrk(i)
                   THEN <<seg(At(coord, half - 1), top_r_coord0),
                          seg(top_coord0[1], At(coord, half))>>
                   ELSE IF botbrk(i)
                   THEN <<seg(At(coord, n_side - 1), bot_l_coord0),
                          seg(bot_coord0[2], At(coord, 0))>>
                   ELSE edge(i)
              [] mode = 6 ->
                   IF topbrk(i)
                   THEN <<seg(At(coord, half - 1), top_coord1[2]),
                          seg(top_l_coord1, At(coord, half))>>
                   ELSE IF botbrk(i)
                   THEN <<seg(At(coord, n_side - 1), bot_coord1[1]),
                          seg(bot_r_coord1, At(coord, 0))>>
                   ELSE edge(i)
              [] mode = 7 -> IF botbrk(i) THEN <<>> ELSE edge(i)
              [] mode = 8 -> IF topbrk(i) THEN <<>> ELSE edge(i)
              [] mode = 9 -> IF botbrk(i) \/ topbrk(i) THEN <<>> ELSE edge(i)
              [] mode = 10 ->
                   IF botbrk(i) THEN edge(i)
                   ELSE IF topbrk(i)
                   THEN <<seg(At(coord, half - 1), top_open_coord[2]),
                          seg(top_open_coord[1], At(coord, half))>>
                   ELSE edge(i)
              [] mode = 11 ->
                   IF botbrk(i)
                   THEN <<seg(Last(coord), bot_open_coord[1]),
                          seg(bot_open_coord[2], At(coord, 0))>>
                   ELSE edge(i)
              [] mode = 12 ->
                   IF botbrk(i)
                   THEN <<seg(Last(coord), bot_open_coord[1]),
                          seg(bot_open_coord[2], At(coord, 0))>>
                   ELSE IF topbrk(i)
                   THEN <<seg(At(coord, half - 1), top_open_coord[2]),
                          seg(top_open_coord[1], At(coord, half))>>
                   ELSE edge(i)
              [] mode = 14 ->
                   IF i = (n_side * 3) \div 4 - 1
                   THEN <<seg(At(coord, i), left_open_coord[2]),
                          seg(left_open_coord[1], At(coord, i + 1))>>
                   ELSE edge(i)
              [] OTHER -> <<>>
        \* the bridge-layer stub and the via point at the top break
        top_tail == CASE mode \in {2, 5} ->
                           <<seg(top_r_coord0, top_coord0[2])>>
                      [] mode \in {3, 6} ->
                           <<seg(top_coord1[1], top_l_coord1)>>
                      [] OTHER -> <<>>
        top_via == CASE mode \in {2, 5} -> <<top_r_coord0>>
                     [] mode \in {3, 6} -> <<top_l_coord1>>
                     [] OTHER -> <<>>
        \* the bridge-layer stub and the via point at the bottom break
        bot_tail == CASE mode \in {4, 5} ->
                           <<seg(bot_l_coord0, bot_coord0[1])>>
                      [] mode = 6 -> <<seg(bot_coord1[2], bot_r_coord1)>>
                      [] OTHER -> <<>>
        bot_via == CASE mode \in {4, 5} -> <<bot_l_coord0>>
                     [] mode = 6 -> <<bot_r_coord1>>
                     [] OTHER -> <<>>
    IN  [err |-> IF mode \in (0..12) \cup {14} THEN "none" ELSE "ValueError",
         path_coord |-> Flatten([k \in 1..n_side |-> segs(k - 1)]),
         lead_coord |-> CASE mode \in {1, 2} -> lead_coord0
                          [] mode = 14 -> lead_coord270
                          [] OTHER -> <<>>,
         tail_coord |-> top_tail \o bot_tail,
         top_coord |-> CASE mode \in {2, 5} -> top_coord0
                         [] mode \in {3, 6} -> top_coord1
                         [] OTHER -> <<>>,
         bot_coord |-> CASE mode \in {4, 5} -> bot_coord0
                         [] mode = 6 -> bot_coord1
                         [] OTHER -> <<>>,
         via_coord |-> top_via \o bot_via,
         center_tap_coord |->
             CASE mode = 1 -> <<offset, ty>>
               [] mode = 14 -> <<rx, offset>>
               [] OTHER -> <<>>]
    \* turn_rad, offset and coord are computed once (lines 1024-1032)
    IN  CHOOSE r \in {out(turn_rad, offset, coord) :
                         turn_rad \in {TurnRad(radius, turn, n_side, width,
                                               spacing)},
                         offset \in {Offset(radius, n_side, width)},
                         coord \in {Coord(radius, turn, n_side, width,
                                          spacing)}} : TRUE

---------------------------------------------------------------------------
(* IndCore.draw_layout of layout/inductor/ind_core.py                      *)

Shapes == {"Rectangle", "Octagon", "Circle"}

CoreParams ==
    [lay_id : 2..MaxLayer, n_turns : 1..MaxTurns, width : 1..MaxWidth,
     spacing : 1..MaxSpacing, radius_x : RadiusSet, radius_y : RadiusSet,
     term_sp : 1..MaxTermSp, ind_shape : Shapes]

InitCore ==
    /\ prog = "IndCore"
    /\ params \in CoreParams
    /\ pc = "shape"
    /\ err = "none"
    /\ vertices = <<>>
    /\ tidx = 0
    /\ turn_coords = <<>>
    /\ insts = <<>>
    /\ paths = <<>>
    /\ vias = <<>>
    /\ term_coords = <<>>
    /\ actual_bbox = <<0, 0, 0, 0>>
    /\ loc = <<>>
    /\ feasibility = TRUE
    /\ ret = <<>>

NSides(ind_shape) == IF ind_shape = "Rectangle" THEN 4 ELSE 8
VBot(ind_shape) == IF ind_shape = "Rectangle" THEN 0 ELSE 1
VTop(ind_shape) == IF ind_shape = "Rectangle" THEN 1 ELSE 2

\* x span of the bottom edge of a turn: v[0][0] - v[-1][0]
BottomSpan(v) == At(v, 0)[1] - Last(v)[1]

BridgeSp(width, spacing) == spacing + 3 * width

Raise(what) ==
    /\ err' = what
    /\ pc' = "raised"

\* lines 64-73: shape check, then the vertices of all turns
CheckShape ==
    /\ prog = "IndCore" /\ pc = "shape"
    /\ IF params.ind_shape \in {"Rectangle", "Octagon"}
       THEN /\ vertices' = compute_vertices(NSides(params.ind_shape),
                               params.n_turns, params.radius_x,
                               params.radius_y, params.width, params.spacing)
            /\ pc' = "outer"
            /\ err' = err
       ELSE /\ Raise("ind_shape")
            /\ vertices' = vertices
    /\ UNCHANGED <<loc, feasibility, ret, prog, params, tidx, turn_coords, insts, paths, vias,
                   term_coords, actual_bbox>>

\* line 76
OuterClearanceFails(span, term_sp, width) == span < term_sp + 4 * width

\* lines 75-77: feasibility of the outer turn against term_sp
CheckOuter ==
    /\ prog = "IndCore" /\ pc = "outer"
    /\ IF OuterClearanceFails(BottomSpan(vertices[1]), params.term_sp,
                              params.width)
       THEN Raise("term_sp")
       ELSE pc' = "bridge" /\ err' = err
    /\ UNCHANGED <<loc, feasibility, ret, prog, params, vertices, tidx, turn_coords, insts, paths,
                   vias, term_coords, actual_bbox>>

\* faulty variant of BridgeClearanceFails: the check is also made for a
\* single turn
BridgeClearanceFails_AnyTurns(n_turns, span, width, spacing) ==
    span < BridgeSp(width, spacing) + 4 * width

\* faulty variant of BridgeClearanceFails: the margin is 2 * width
BridgeClearanceFails_2w(n_turns, span, width, spacing) ==
    /\ n_turns > 1
    /\ span < BridgeSp(width, spacing) + 2 * width

\* lines 80-82
BridgeClearanceFails(n_turns, span, width, spacing) ==
    /\ n_turns > 1
    /\ span < BridgeSp(width, spacing) + 4 * width

\* lines 79-83: feasibility of the inner turn against the bridge space
CheckBridge ==
    /\ prog = "IndCore" /\ pc = "bridge"
    /\ IF BridgeClearanceFails(params.n_turns, BottomSpan(Last(vertices)),
                               params.width, params.spacing)
       THEN Raise("bridge_sp")
       ELSE pc' = "radius_y" /\ err' = err
    /\ UNCHANGED <<loc, feasibility, ret, prog, params, vertices, tidx, turn_coords, insts, paths,
                   vias, term_coords, actual_bbox>>

\* line 86
RadiusYFails(v, ind_shape, width) ==
    At(v, VTop(ind_shape))[2] - At(v, VBot(ind_shape))[2] < width

\* faulty variant of CheckRadiusY: the check is made after the first turn
\* instance has been added
CheckRadiusY_Late ==
    /\ prog = "IndCore" /\ pc = "radius_y"
    /\ IF RadiusYFails(Last(vertices), params.ind_shape, params.width)
       THEN /\ Raise("radius_y")
            /\ insts' = Append(insts, [name |-> 0, path_list |-> <<>>])
       ELSE pc' = "turns" /\ err' = err /\ insts' = insts
    /\ UNCHANGED <<loc, feasibility, ret, prog, params, vertices, tidx,
                   turn_coords, paths, vias, term_coords, actual_bbox>>

\* lines 85-87: feasibility of the inner turn against radius_y
CheckRadiusY ==
    /\ prog = "IndCore" /\ pc = "radius_y"
    /\ IF RadiusYFails(Last(vertices), params.ind_shape, params.width)
       THEN Raise("radius_y")
       ELSE pc' = "turns" /\ err' = err
    /\ UNCHANGED <<loc, feasibility, ret, prog, params, vertices, tidx, turn_coords, insts, paths,
                   vias, term_coords, actual_bbox>>

OffX == params.radius_x + FloorDiv(params.width, 2)
BridgeXl == OffX - FloorDiv(BridgeSp(params.width, params.spacing), 2)
BridgeXr == OffX + FloorDiv(BridgeSp(params.width, params.spacing), 2)

\* lines 93-107: the two half turns of turn t
TurnCoords(t) ==
    LET v == vertices[t + 1]
        n_sides == NSides(params.ind_shape)
        mid == FloorDiv(n_sides, 2)
        start_x == IF t = 0
                   THEN OffX + FloorDiv(params.term_sp + params.width, 2)
                   ELSE BridgeXr
        stop_x == IF t = 0
                  THEN OffX - FloorDiv(params.term_sp + params.width, 2)
                  ELSE BridgeXl
    IN  [right |-> <<<<start_x, At(v, 0)[2]>>>> \o Slice(v, 0, mid)
                     \o <<<<BridgeXr, At(v, mid - 1)[2]>>>>,
         left  |-> <<<<BridgeXl, At(v, mid)[2]>>>> \o Slice(v, mid, n_sides)
                     \o <<<<stop_x, Last(v)[2]>>>>]

\* lines 92-117: one iteration of the loop over the turns
DrawTurn ==
    /\ prog = "IndCore" /\ pc = "turns"
    /\ tidx < params.n_turns
    /\ LET tc == TurnCoords(tidx)
       IN  /\ insts' = Append(insts,
                  [name |-> tidx,
                   path_list |-> <<[lay |-> params.lay_id, pts |-> tc.left],
                                   [lay |-> params.lay_id, pts |-> tc.right]>>])
           /\ turn_coords' = Append(turn_coords, tc)
    /\ IF tidx + 1 < params.n_turns
       THEN tidx' = tidx + 1 /\ pc' = pc
       ELSE tidx' = 1 /\ pc' = "top"
    /\ UNCHANGED <<loc, feasibility, ret, prog, params, err, vertices, paths, vias, term_coords,
                   actual_bbox>>

\* add_via(bbox, bridge_lp, lp, ...): a via between the bridge layer and
\* the coil layer
Via(xl, yl, xh, yh) ==
    ViaRec(params.lay_id - 1, params.lay_id, <<xl, yl, xh, yh>>)

\* lines 123-125: with an odd number of turns the innermost turn is closed
\* at the top
TopDirect ==
    /\ prog = "IndCore" /\ pc = "top"
    /\ paths' = IF params.n_turns % 2 = 1
                THEN Append(paths, Path(params.lay_id,
                         <<At(Last(turn_coords).left, 0),
                           Last(Last(turn_coords).right)>>))
                ELSE paths
    /\ pc' = "top_loop"
    /\ tidx' = 1
    /\ UNCHANGED <<loc, feasibility, ret, prog, params, err, vertices, turn_coords, insts, vias,
                   term_coords, actual_bbox>>

\* faulty variant of LayArm: the arm stays at the height of l1 and does not
\* reach the point r0 of the other turn
LayArm_Straight(l1, r0, w) ==
    Path(params.lay_id,
         <<l1, <<l1[1] + w, l1[2]>>, <<r0[1] - w, l1[2]>>, <<r0[1], l1[2]>>>>)

\* lines 132-140 and 153-162: the crossing between the points l0/r0 of one
\* turn and l1/r1 of the other: one arm on the coil layer from l1 to r0, one
\* arm on the bridge layer from l0 to r1 with a via at each end
LayArm(l1, r0, w) ==
    Path(params.lay_id,
         <<l1, <<l1[1] + w, l1[2]>>, <<r0[1] - w, r0[2]>>, r0>>)

BridgeArm(l0, r1, w) ==
    Path(params.lay_id - 1,
         <<<<l0[1] - 2 * w, l0[2]>>, <<l0[1] + w, l0[2]>>,
           <<r1[1] - w, r1[2]>>, <<r1[1] + 2 * w, r1[2]>>>>)

\* faulty variant of BridgeVias: the via at the right end is missing
BridgeVias_LeftOnly(l0, r1, w) ==
    <<Via(l0[1] - 2 * w, l0[2] - FloorDiv(w, 2), l0[1], l0[2] + FloorDiv(w, 2))>>

BridgeVias(l0, r1, w) ==
    <<Via(l0[1] - 2 * w, l0[2] - FloorDiv(w, 2), l0[1], l0[2] + FloorDiv(w, 2)),
      Via(r1[1], r1[2] - FloorDiv(w, 2), r1[1] + 2 * w, r1[2] + FloorDiv(w, 2))>>

\* lines 126-140: one iteration of the top bridge loop
TopBridge ==
    /\ prog = "IndCore" /\ pc = "top_loop"
    /\ params.n_turns > 1 /\ tidx < params.n_turns
    /\ LET top_l == At(At(turn_coords, tidx - 1).left, 0)
           top_r == Last(At(turn_coords, tidx - 1).right)
           bot_l == At(At(turn_coords, tidx).left, 0)
           bot_r == Last(At(turn_coords, tidx).right)
       IN  /\ paths' = paths \o <<LayArm(bot_l, top_r, params.width),
                                  BridgeArm(top_l, bot_r, params.width)>>
           /\ vias' = vias \o BridgeVias(top_l, bot_r, params.width)
    /\ tidx' = tidx + 2
    /\ UNCHANGED <<loc, feasibility, ret, prog, params, pc, err, vertices, turn_coords, insts,
                   term_coords, actual_bbox>>

\* lines 143-147: with an even number of turns the innermost turn is closed
\* at the bottom
BotDirect ==
    /\ prog = "IndCore" /\ pc = "top_loop"
    /\ ~(params.n_turns > 1 /\ tidx < params.n_turns)
    /\ paths' = IF params.n_turns > 1 /\ params.n_turns % 2 = 0
                THEN Append(paths, Path(params.lay_id,
                         <<Last(Last(turn_coords).left),
                           At(Last(turn_coords).right, 0)>>))
                ELSE paths
    /\ pc' = "bot_loop"
    /\ tidx' = 1
    /\ UNCHANGED <<loc, feasibility, ret, prog, params, err, vertices, turn_coords, insts, vias,
                   term_coords, actual_bbox>>

\* lines 148-162: one iteration of the bottom bridge loop
BotBridge ==
    /\ prog = "IndCore" /\ pc = "bot_loop"
    /\ params.n_turns > 1 /\ tidx < params.n_turns - 1
    /\ LET top_l == Last(At(turn_coords, tidx + 1).left)
           top_r == At(At(turn_coords, tidx + 1).right, 0)
           bot_l == Last(At(turn_coords, tidx).left)
           bot_r == At(At(turn_coords, tidx).right, 0)
       IN  /\ paths' = paths \o <<LayArm(top_l, bot_r, params.width),
                                  BridgeArm(bot_l, top_r, params.width)>>
           /\ vias' = vias \o BridgeVias(bot_l, top_r, params.width)
    /\ tidx' = tidx + 2
    /\ UNCHANGED <<loc, feasibility, ret, prog, params, pc, err, vertices, turn_coords, insts,
                   term_coords, actual_bbox>>

\* lines 164-170: attributes and size
SetAttributes ==
    /\ prog = "IndCore" /\ pc = "bot_loop"
    /\ ~(params.n_turns > 1 /\ tidx < params.n_turns - 1)
    /\ term_coords' = <<Last(At(turn_coords, 0).left),
                        At(At(turn_coords, 0).right, 0)>>
    /\ actual_bbox' = <<0, 0, 2 * params.radius_x + params.width,
                        2 * params.radius_y + params.width>>
    /\ pc' = "done"
    /\ UNCHANGED <<loc, feasibility, ret, prog, params, err, vertices, tidx, turn_coords, insts,
                   paths, vias>>

NextCore ==
    \/ CheckShape
    \/ CheckOuter
    \/ CheckBridge
    \/ CheckRadiusY
    \/ DrawTurn
    \/ TopDirect
    \/ TopBridge
    \/ BotDirect
    \/ BotBridge
    \/ SetAttributes

Spec == InitCore /\ [][NextCore]_vars

---------------------------------------------------------------------------
(* IndTemplate of layout/inductor/util.py: draw_path, draw_via,            *)
(* draw_mulvia and _draw_ind_turn.                                         *)

\* lines 780-813: draw_path with a list of paths (each a list of points):
\* the paths it adds
draw_path(layid, path_coord) ==
    [k \in 1..Len(path_coord) |-> Path(layid, path_coord[k])]

\* lines 841-843 and 848-850: the via box around a via coordinate
ViaBox(c, width, height) ==
    <<c[1] - FloorDiv(width, 2), c[2] - FloorDiv(height, 2),
      c[1] + FloorDiv(width, 2), c[2] + FloorDiv(height, 2)>>

\* faulty variant of ViaLayersOk: any two distinct layers are accepted
ViaLayersOk_Distinct(layid1, layid2) == layid1 # layid2

\* lines 822-823
ViaLayersOk(layid1, layid2) == Abs(layid1 - layid2) = 1

\* lines 815-852: draw_via; via_coord is a list of points, or a single
\* point (is_tuple).  The vias it adds, or the error it raises
draw_via(via_coord, is_tuple, width, height, layid1, layid2) ==
    LET bot == IF layid1 < layid2 THEN layid1 ELSE layid2
        top == IF layid1 < layid2 THEN layid2 ELSE layid1
    IN  IF ~ViaLayersOk(layid1, layid2)
        THEN [err |-> "ValueError", vias |-> <<>>]
        ELSE IF is_tuple
        THEN [err |-> "none",
              vias |-> <<ViaRec(bot, top, ViaBox(via_coord, width, height))>>]
        ELSE [err |-> "none",
              vias |-> [k \in 1..Len(via_coord) |->
                          ViaRec(bot, top, ViaBox(via_coord[k], width, height))]]

\* faulty variant of SelectMode: the innermost turn of a coil with an even
\* number of turns gets the bottom break and that of a coil with an odd
\* number of turns the top break
SelectMode_Swapped(n_turn, turn, orient) ==
    IF turn = 0 /\ n_turn = 1
    THEN CASE orient = "R0" -> [err |-> "none", mode |-> 1]
           [] orient = "R270" -> [err |-> "none", mode |-> 14]
           [] OTHER -> [err |-> "NotImplementedError", mode |-> 0]
    ELSE IF turn = 0 /\ n_turn > 1 THEN [err |-> "none", mode |-> 2]
    ELSE IF turn = n_turn - 1 /\ n_turn % 2 = 0
         THEN [err |-> "none", mode |-> 4]
    ELSE IF turn = n_turn - 1 /\ n_turn % 2 # 0
         THEN [err |-> "none", mode |-> 3]
    ELSE IF turn % 2 = 0 THEN [err |-> "none", mode |-> 5]
    ELSE [err |-> "none", mode |-> 6]

\* lines 77-93: the break mode of turn `turn` of an n_turn coil
SelectMode(n_turn, turn, orient) ==
    IF turn = 0 /\ n_turn = 1
    THEN CASE orient = "R0" -> [err |-> "none", mode |-> 1]
           [] orient = "R270" -> [err |-> "none", mode |-> 14]
           [] OTHER -> [err |-> "NotImplementedError", mode |-> 0]
    ELSE IF turn = 0 /\ n_turn > 1 THEN [err |-> "none", mode |-> 2]
    ELSE IF turn = n_turn - 1 /\ n_turn % 2 = 0
         THEN [err |-> "none", mode |-> 3]
    ELSE IF turn = n_turn - 1 /\ n_turn % 2 # 0
         THEN [err |-> "none", mode |-> 4]
    ELSE IF turn % 2 = 0 THEN [err |-> "none", mode |-> 5]
    ELSE [err |-> "none", mode |-> 6]

\* the rounding choices (fz0, fz1) that a mode's coordinates depend on
FuzzOf(mode) ==
    CASE mode = 6 -> {0, 1} \X {0, 1}
      [] mode \in {3, 4, 5} -> {0} \X {0, 1}
      [] OTHER -> {<<0, 0>>}

---------------------------------------------------------------------------
(* IndCore.draw_layout of layout/inductor_bak/ind_core.py, the older core  *)
(* built on IndTemplate.                                                   *)

MaxOpening == 2

Orients == {"R0", "R270", "R90"}

\* (min_width, min_spacing) of the technology
Rules == {<<1, 1>>, <<MaxWidth, MaxSpacing>>}

\* track pitches of the routing grid on the coil layer
Pitches == {1, 2}

BakParams ==
    {q \in [n_side : {4, 8}, n_turn : 1..MaxTurns, layid : {MaxLayer},
            radius : {RadiusStep, RadiusStep * MaxRadiusSteps},
            spacing : {1, MaxSpacing}, width : {1, MaxWidth},
            opening : {1, MaxOpening}, orient : Orients,
            via_width : {1, MaxWidth},
            rules : Rules,
            \* the routing grid: track pitch, and total width of the wire
            \* that fits in `width`
            pitch : Pitches, tr_w : {1, MaxWidth}] :
        /\ q.tr_w \in {1, q.width}
        /\ q.via_width = q.width}

NoLocals ==
    [opening |-> 0, mode |-> <<>>, path_coord |-> <<>>, lead_coord |-> <<>>,
     top_coord |-> <<>>, bot_coord |-> <<>>, via_coord |-> <<>>,
     center_tap_coord |-> <<>>, bdg_upper_coord |-> <<>>,
     bdg_lower_coord |-> <<>>]

InitBak ==
    /\ prog = "IndCoreBak"
    /\ params \in BakParams
    /\ pc = "checks"
    /\ err = "none"
    /\ vertices = <<>>
    /\ tidx = 0
    /\ turn_coords = <<>>
    /\ insts = <<>>
    /\ paths = <<>>
    /\ vias = <<>>
    /\ term_coords = <<>>
    /\ actual_bbox = <<0, 0, 0, 0>>
    /\ loc = NoLocals
    /\ feasibility = TRUE
    /\ ret = <<>>

\* lines 98-103: the opening moved onto the track grid
QuantOpening(opening, width, pitch, tr_w) ==
    pitch * CeilDiv(opening + tr_w, pitch) - tr_w + width

\* lines 98-113: the opening on tracks, then the width and spacing rules
BakChecks ==
    /\ prog = "IndCoreBak" /\ pc = "checks"
    /\ loc' = [loc EXCEPT !.opening = QuantOpening(params.opening,
                              params.width, params.pitch, params.tr_w)]
    /\ IF params.width < params.rules[1]
       THEN feasibility' = FALSE /\ Raise("Width is too small")
       ELSE IF params.spacing < params.rules[2]
       THEN feasibility' = FALSE /\ Raise("Spacing is too small")
       ELSE feasibility' = feasibility /\ pc' = "turns" /\ err' = err
    /\ UNCHANGED <<prog, params, vertices, tidx, turn_coords, insts, paths,
                   vias, term_coords, actual_bbox, ret>>

\* lines 122-135 with _draw_ind_turn (util.py lines 77-106): one iteration
\* of the loop over the turns
BakDrawTurn ==
    /\ prog = "IndCoreBak" /\ pc = "turns"
    /\ tidx < params.n_turn
    /\ LET sel == SelectMode(params.n_turn, tidx, params.orient)
       IN  IF sel.err # "none"
           THEN /\ Raise(sel.err)
                /\ UNCHANGED <<loc, paths, tidx>>
           ELSE \E fz \in FuzzOf(sel.mode) :
                \E r \in {get_octpath_coord(params.radius, tidx, params.n_side,
                             params.width, params.spacing, loc.opening, 0,
                             params.via_width, sel.mode, fz[1], fz[2])} :
                    /\ paths' = paths
                                \o draw_path(params.layid, r.path_coord)
                                \o draw_path(params.layid - 1, r.tail_coord)
                    /\ loc' = [loc EXCEPT
                          !.mode = Append(@, sel.mode),
                          !.path_coord = Append(@, r.path_coord),
                          !.lead_coord = IF tidx = 0 THEN r.lead_coord ELSE @,
                          !.center_tap_coord =
                              IF tidx = params.n_turn - 1
                              THEN r.center_tap_coord ELSE @,
                          !.top_coord = Append(@, r.top_coord),
                          !.bot_coord = Append(@, r.bot_coord),
                          !.via_coord = @ \o r.via_coord]
                    /\ err' = err
                    /\ IF tidx + 1 < params.n_turn
                       THEN tidx' = tidx + 1 /\ pc' = pc
                       ELSE tidx' = 0 /\ pc' = "bridges"
    /\ UNCHANGED <<prog, params, vertices, turn_coords, insts, vias,
                   term_coords, actual_bbox, feasibility, ret>>

\* faulty variant of BridgeEnds: the top breaks are read for every i
BridgeEnds_TopOnly(i) ==
    <<At(loc.top_coord, i), At(loc.top_coord, i + 1)>>

\* lines 147-161: the break coordinates the bridge of turn i reads: the top
\* breaks of turns i and i + 1 for even i, the bottom breaks for odd i
BridgeEnds(i) ==
    IF i % 2 = 0
    THEN <<At(loc.top_coord, i), At(loc.top_coord, i + 1)>>
    ELSE <<At(loc.bot_coord, i), At(loc.bot_coord, i + 1)>>

\* lines 148-161: <<upper, lower>> bridge of turn i
BridgePair(i) ==
    LET a == BridgeEnds(i)[1]
        b == BridgeEnds(i)[2]
    IN  IF a[1][1] < 0
        THEN <<<<a[1], b[2]>>, <<a[2], b[1]>>>>
        ELSE <<<<a[2], b[1]>>, <<a[1], b[2]>>>>

\* a break coordinate that the bridge of turn i reads is None
BridgeReadsNone(i) == BridgeEnds(i)[1] = <<>> \/ BridgeEnds(i)[2] = <<>>

\* lines 143-180: the bridges between the turns, their vias, the size and
\* the properties
BakBridges ==
    /\ prog = "IndCoreBak" /\ pc = "bridges"
    /\ LET n == params.n_turn
           upper == [i \in 1..(n - 1) |-> BridgePair(i - 1)[1]]
           lower == [i \in 1..(n - 1) |-> BridgePair(i - 1)[2]]
           v == draw_via(loc.via_coord, FALSE, params.via_width,
                         params.width, params.layid - 1, params.layid)
       IN  IF \E i \in 0..(n - 2) : BridgeReadsNone(i)
           THEN /\ Raise("TypeError")
                /\ UNCHANGED <<paths, vias, actual_bbox, loc>>
           ELSE /\ loc' = [loc EXCEPT !.bdg_upper_coord = upper,
                                      !.bdg_lower_coord = lower]
                /\ paths' = paths \o draw_path(params.layid, upper)
                                  \o draw_path(params.layid - 1, lower)
                /\ IF loc.via_coord = <<>>
                   THEN vias' = vias /\ err' = err /\ pc' = "done"
                   ELSE /\ vias' = vias \o v.vias
                        /\ err' = v.err
                        /\ pc' = IF v.err = "none" THEN "done" ELSE "raised"
                /\ actual_bbox' =
                     IF loc.via_coord # <<>> /\ v.err # "none"
                     THEN actual_bbox
                     ELSE LET tot_dim ==
                                2 * round_up(params.radius
                                     * SinPhase(params.n_side,
                                                params.n_side \div 2))
                                + params.width
                          IN  <<0, 0, tot_dim, tot_dim>>
    /\ UNCHANGED <<prog, params, vertices, tidx, turn_coords, insts,
                   term_coords, feasibility, ret>>

NextBak ==
    \/ BakChecks
    \/ BakDrawTurn
    \/ BakBridges

SpecBak == InitBak /\ [][NextBak]_vars

\* both generations of the inductor core
SpecBoth == (InitCore \/ InitBak) /\ [][NextCore \/ NextBak]_vars

---------------------------------------------------------------------------
(* IndTemplate.draw_via and IndTemplate.draw_mulvia called on their own.   *)

ViaPoints == {<<0, 0>>, <<RadiusStep, MaxWidth>>}

\* the via_coord argument: a list of points, or one point (is_tuple, the
\* point being pts[1])
ViaCoords ==
    {[is_tuple |-> FALSE, pts |-> <<>>]}
    \cup {[is_tuple |-> FALSE, pts |-> <<a>>] : a \in ViaPoints}
    \cup {[is_tuple |-> FALSE, pts |-> <<a, b>>] : a \in ViaPoints,
                                                    b \in ViaPoints}
    \cup {[is_tuple |-> TRUE, pts |-> <<a>>] : a \in ViaPoints}

ViaParams ==
    [via_coord : ViaCoords, width : 1..MaxWidth, height : 1..MaxWidth,
     layid1 : 1..MaxLayer, layid2 : 1..MaxLayer]

InitVia ==
    /\ \/ /\ prog = "draw_via"
          /\ params \in ViaParams
       \/ /\ prog = "draw_mulvia"
          /\ params \in {q \in ViaParams : q.via_coord.is_tuple}
    /\ pc = "call"
    /\ err = "none"
    /\ vertices = <<>>
    /\ tidx = 0
    /\ turn_coords = <<>>
    /\ insts = <<>>
    /\ paths = <<>>
    /\ vias = <<>>
    /\ term_coords = <<>>
    /\ actual_bbox = <<0, 0, 0, 0>>
    /\ loc = <<>>
    /\ feasibility = TRUE
    /\ ret = <<>>

\* util.py lines 815-852
DrawViaCall ==
    /\ prog = "draw_via" /\ pc = "call"
    /\ LET vc == params.via_coord
           r == draw_via(IF vc.is_tuple THEN vc.pts[1] ELSE vc.pts,
                         vc.is_tuple, params.width, params.height,
                         params.layid1, params.layid2)
       IN  /\ vias' = vias \o r.vias
           /\ err' = r.err
           /\ pc' = IF r.err = "none" THEN "done" ELSE "raised"
    /\ UNCHANGED <<prog, params, vertices, tidx, turn_coords, insts, paths,
                   term_coords, actual_bbox, loc, feasibility, ret>>

\* util.py lines 860-866: which branch draw_mulvia(bot_layid, top_layid)
\* takes
MulviaBranch(bot_layid, top_layid) ==
    IF top_layid - bot_layid = 1 THEN "one"
    ELSE IF top_layid - bot_layid > 1 THEN "stack"
    ELSE "ValueError"

\* util.py lines 854-867, up to the first draw_via; layid1 is bot_layid and
\* layid2 is top_layid
DrawMulvia ==
    /\ prog = "draw_mulvia" /\ pc = "call"
    /\ LET br == MulviaBranch(params.layid1, params.layid2)
           r == draw_via(params.via_coord.pts[1], TRUE, params.width,
                         params.height, params.layid1, params.layid2)
       IN  CASE br = "one" ->
                  /\ vias' = vias \o r.vias
                  /\ err' = r.err
                  /\ pc' = IF r.err = "none" THEN "done" ELSE "raised"
                  /\ tidx' = tidx
             [] br = "stack" ->
                  /\ pc' = "stack"
                  /\ tidx' = params.layid1
                  /\ UNCHANGED <<vias, err>>
             [] OTHER ->
                  /\ Raise("ValueError")
                  /\ UNCHANGED <<vias, tidx>>
    /\ UNCHANGED <<prog, params, vertices, turn_coords, insts, paths,
                   term_coords, actual_bbox, loc, feasibility, ret>>

\* util.py lines 863-865: one iteration of the loop over the layers
MulviaStep ==
    /\ prog = "draw_mulvia" /\ pc = "stack"
    /\ tidx < params.layid2
    /\ LET r == draw_via(params.via_coord.pts[1], TRUE, params.width,
                         params.height, tidx, tidx + 1)
       IN  /\ vias' = vias \o r.vias
           /\ err' = r.err
           /\ pc' = IF r.err # "none" THEN "raised"
                    ELSE IF tidx + 1 < params.layid2 THEN pc ELSE "done"
    /\ tidx' = tidx + 1
    /\ UNCHANGED <<prog, params, vertices, turn_coords, insts, paths,
                   term_coords, actual_bbox, loc, feasibility, ret>>

NextVia ==
    \/ DrawViaCall
    \/ DrawMulvia
    \/ MulviaStep

SpecVia == InitVia /\ [][NextVia]_vars

\* the path_coord argument of draw_path: a list of paths, or one path
\* (is_tuple: its first element is a point; the path is then pts[1])
PathCoords ==
    {[is_tuple |-> FALSE, pts |-> <<>>]}
    \cup {[is_tuple |-> FALSE, pts |-> <<<<a, b>>>>] : a \in ViaPoints, b \in ViaPoints}
    \cup {[is_tuple |-> FALSE, pts |-> <<<<a, b>>, <<b, a>>>>] : a \in ViaPoints, b \in ViaPoints}
    \cup {[is_tuple |-> TRUE, pts |-> <<<<a, b>>>>] : a \in ViaPoints, b \in ViaPoints}

PathParams == [path_coord : PathCoords, width : 1..MaxWidth, layid : 1..MaxLayer]

InitPath ==
    /\ prog = "draw_path"
    /\ params \in PathParams
    /\ pc = "call"
    /\ err = "none"
    /\ vertices = <<>>
    /\ tidx = 0
    /\ turn_coords = <<>>
    /\ insts = <<>>
    /\ paths = <<>>
    /\ vias = <<>>
    /\ term_coords = <<>>
    /\ actual_bbox = <<0, 0, 0, 0>>
    /\ loc = <<>>
    /\ feasibility = TRUE
    /\ ret = <<>>

\* util.py lines 780-813
DrawPathCall ==
    /\ prog = "draw_path" /\ pc = "call"
    /\ LET pcd == params.path_coord
       IN  paths' = paths \o (IF Len(pcd.pts) = 0 THEN <<>>
                              ELSE IF pcd.is_tuple THEN <<Path(params.layid, pcd.pts[1])>>
                              ELSE draw_path(params.layid, pcd.pts))
    /\ pc' = "done"
    /\ UNCHANGED <<prog, params, err, vertices, tidx, turn_coords, insts, vias,
                   term_coords, actual_bbox, loc, feasibility, ret>>

\* draw_path and draw_via, each called on its own
SpecDraw == (InitVia \/ InitPath) /\ [][NextVia \/ DrawPathCall]_vars

---------------------------------------------------------------------------
(* get_octpath_coord called on its own.                                    *)

OctParams ==
    {q \in [radius : RadiusSet, turn : 0..(MaxTurns - 1), n_side : {4, 8},
            width : 1..MaxWidth, spacing : 0..MaxSpacing,
            bot_open : 1..MaxOpening, top_open : {0, 1},
            via_width : 0..MaxWidth, mode : 0..14] :
        q.via_width \in {0, q.width}}

InitOct ==
    /\ prog = "get_octpath_coord"
    /\ params \in OctParams
    /\ pc = "call"
    /\ err = "none"
    /\ vertices = <<>>
    /\ tidx = 0
    /\ turn_coords = <<>>
    /\ insts = <<>>
    /\ paths = <<>>
    /\ vias = <<>>
    /\ term_coords = <<>>
    /\ actual_bbox = <<0, 0, 0, 0>>
    /\ loc = <<>>
    /\ feasibility = TRUE
    /\ ret = <<>>

\* util.py lines 1001-1259
OctCall ==
    /\ prog = "get_octpath_coord" /\ pc = "call"
    /\ \E fz \in FuzzOf(params.mode) :
       \E r \in {get_octpath_coord(params.radius, params.turn, params.n_side,
                     params.width, params.spacing, params.bot_open,
                     params.top_open, params.via_width, params.mode,
                     fz[1], fz[2])} :
          IF r.err = "none"
          THEN ret' = r /\ err' = err /\ pc' = "done"
          ELSE ret' = ret /\ Raise(r.err)
    /\ UNCHANGED <<prog, params, vertices, tidx, turn_coords, insts, paths,
                   vias, term_coords, actual_bbox, loc, feasibility>>

NextOct == OctCall

SpecOct == InitOct /\ [][NextOct]_vars

---------------------------------------------------------------------------
(* IndTemplate._draw_ind_ring and IndTemplate.draw_sqr_guardring           *)
(* (layout/inductor/util.py).  conn_width and pin_len are not read by the  *)
(* code that is not commented out, and are left out.                       *)

MaxRingTurn == 2

\* sqrt(2), scaled
SQRT2 == 1414214

RingOrients == {"R0", "MY", "R180", "MX", "R90", "R270", "MXR90"}

\* the layer lists from 1..MaxLayer that are contiguous and ascending, the
\* empty list and a list with a hole
RingLayerLists ==
    {[k \in 1..(b - a + 1) |-> a + k - 1] : a \in 1..MaxLayer, b \in 1..MaxLayer}
    \cup {<<1, MaxLayer>>}

RingParams ==
    [halflen : {RadiusStep, RadiusStep * MaxRadiusSteps},
     width : {1, MaxWidth}, spacing : {1, MaxSpacing},
     turn : 1..MaxRingTurn, n_conn : -1..2, opening : {1, MaxOpening},
     ind_layid : {2, 3}, layer_list : RingLayerLists,
     orient : RingOrients]

NoRings == [ring_arr |-> <<>>, ring_lenarr |-> <<>>]

InitRing ==
    /\ prog = "_draw_ind_ring"
    /\ params \in RingParams
    /\ pc = "check"
    /\ err = "none"
    /\ vertices = <<>>
    /\ tidx = 0
    /\ turn_coords = <<>>
    /\ insts = <<>>
    /\ paths = <<>>
    /\ vias = <<>>
    /\ term_coords = <<>>
    /\ actual_bbox = <<0, 0, 0, 0>>
    /\ loc = NoRings
    /\ feasibility = TRUE
    /\ ret = <<>>

\* line 111
ConnCountFails(n_conn) == n_conn = 1

\* lines 111-116: the check of n_conn
RingCheck ==
    /\ prog = "_draw_ind_ring" /\ pc = "check"
    /\ IF ConnCountFails(params.n_conn)
       THEN Raise("number of connection points should be larger than 1.")
       ELSE pc' = "rings" /\ err' = err
    /\ UNCHANGED <<prog, params, vertices, tidx, turn_coords, insts, paths,
                   vias, term_coords, actual_bbox, loc, feasibility, ret>>

\* lines 212-215: the error of the check of layer_list, or "none"
LayerListError(layer_list) ==
    IF Len(layer_list) = 0 THEN "Layer list should not be empty"
    ELSE IF Len(layer_list) # Last(layer_list) - At(layer_list, 0) + 1
    THEN "All layer should be adjacent, from low to high"
    ELSE "none"

\* lines 225-237: the mode of the ring on layer lay_id; -1 for 'Not
\* supported'
RingMode(lay_id, ind_layid, orient) ==
    IF lay_id # ind_layid THEN 0
    ELSE CASE orient \in {"R0", "MY"} -> 11
           [] orient \in {"R180", "MX"} -> 10
           [] orient = "R90" -> 13
           [] orient = "R270" -> 14
           [] OTHER -> -1

\* line 217
RingRadius(halflen) == round_up(halflen * SQRT2)

\* lines 224-241: the segments of the ring on layer lay_id, or the error
RingPath(halflen, width, opening, lay_id, ind_layid, orient) ==
    LET mode == RingMode(lay_id, ind_layid, orient)
    IN  IF mode = -1
        THEN [err |-> "Not supported", path_coord |-> <<>>]
        ELSE LET r == get_octpath_coord(RingRadius(halflen), 0, 4, width, 0,
                                        opening, 0, 0, mode, 0, 0)
             IN  [err |-> IF r.err = "none" THEN "none"
                          ELSE "Other modes are not done yet.",
                  path_coord |-> r.path_coord]

\* lines 252-264: the via of one ring segment, at its midpoint, as long as
\* the segment less 2 * width and as tall as the ring is wide
SegmentVia(path, width, lay_id) ==
    LET x0 == path[1][1]
        y0 == path[1][2]
        x1 == path[2][1]
        y1 == path[2][2]
        mid == <<FloorDiv(x0 + x1, 2), FloorDiv(y0 + y1, 2)>>
    IN  IF x0 = x1
        THEN draw_via(mid, TRUE, width, Abs(y0 - y1) - 2 * width, lay_id, lay_id + 1).vias
        ELSE draw_via(mid, TRUE, Abs(x0 - x1) - 2 * width, width, lay_id, lay_id + 1).vias

\* faulty variant of RingVias: vias below the coil layer for every parity
RingVias_AnyParity(path_coord, width, lay_id, ind_layid) ==
    IF lay_id + 1 = ind_layid THEN <<>>
    ELSE LET lo == IF lay_id = ind_layid THEN lay_id - 1 ELSE lay_id
         IN  Flatten([k \in 1..Len(path_coord) |-> SegmentVia(path_coord[k], width, lo)])

\* lines 250-276: the vias of the ring on layer lay_id
RingVias(path_coord, width, lay_id, ind_layid) ==
    IF lay_id + 1 = ind_layid THEN <<>>
    ELSE IF lay_id = ind_layid /\ ind_layid % 2 = 0 THEN <<>>
    ELSE LET lo == IF lay_id = ind_layid THEN lay_id - 1 ELSE lay_id
         IN  Flatten([k \in 1..Len(path_coord) |-> SegmentVia(path_coord[k], width, lo)])

\* lines 211-276: draw_sqr_guardring
draw_sqr_guardring(halflen, width, opening, ind_layid, layer_list, orient) ==
    LET lerr == LayerListError(layer_list)
        n == Len(layer_list)
        rp == [k \in 1..n |-> RingPath(halflen, width, opening, layer_list[k], ind_layid, orient)]
        bad == {k \in 1..n : rp[k].err # "none"}
        path_arr == [k \in 1..n |-> rp[k].path_coord]
        none == [err |-> "none", path_arr |-> <<>>, length |-> 0, paths |-> <<>>, vias |-> <<>>]
    IN  IF lerr # "none" THEN [none EXCEPT !.err = lerr]
        ELSE IF bad # {}
        THEN [none EXCEPT !.err = rp[CHOOSE k \in bad : \A j \in bad : k <= j].err]
        ELSE [err |-> "none",
              path_arr |-> path_arr,
              length |-> path_arr[n][1][1][1],
              paths |-> Flatten([k \in 1..n |-> draw_path(layer_list[k], path_arr[k])]),
              vias |-> Flatten([k \in 1..n |-> RingVias(path_arr[k], width, layer_list[k], ind_layid)])]

\* lines 114-121: one pass of the loop over the rings
DrawRing ==
    /\ prog = "_draw_ind_ring" /\ pc = "rings"
    /\ tidx < params.turn
    /\ \E r \in {draw_sqr_guardring(params.halflen + tidx * (params.width + params.spacing), params.width, params.opening, params.ind_layid, params.layer_list, params.orient)} :
          IF r.err # "none"
          THEN /\ Raise(r.err)
               /\ UNCHANGED <<tidx, paths, vias, loc>>
          ELSE /\ paths' = paths \o r.paths
               /\ vias' = vias \o r.vias
               /\ loc' = [ring_arr |-> Append(loc.ring_arr, r.path_arr),
                          ring_lenarr |-> Append(loc.ring_lenarr, r.length)]
               /\ tidx' = tidx + 1
               /\ pc' = pc /\ err' = err
    /\ UNCHANGED <<prog, params, vertices, turn_coords, insts, term_coords,
                   actual_bbox, feasibility, ret>>

\* line 216 of the loop's end: ring_arr and ring_lenarr are returned
RingReturn ==
    /\ prog = "_draw_ind_ring" /\ pc = "rings"
    /\ tidx = params.turn
    /\ pc' = "done"
    /\ ret' = <<loc.ring_arr, loc.ring_lenarr>>
    /\ UNCHANGED <<prog, params, err, vertices, tidx, turn_coords, insts,
                   paths, vias, term_coords, actual_bbox, loc, feasibility>>

NextRing == RingCheck \/ DrawRing \/ RingReturn

SpecRing == InitRing /\ [][NextRing]_vars

---------------------------------------------------------------------------
(* IndWrap.draw_layout, _draw_leads and _draw_fill                         *)
(* (layout/inductor/ind_wrap.py).  draw_layout first builds the core       *)
(* (IndCore.draw_layout, the machine above) and goes on when the core is   *)
(* done.  The IndRing that draw_layout instantiates (parameters lay_id,    *)
(* width, gap, radius_x, radius_y; attributes turn_coords and actual_bbox) *)
(* is not the IndRing of layout/inductor/ind_ring.py; its turn_coords are  *)
(* the path 3-----2 / 4-5 0-1 of the comment of _draw_fill, built on       *)
(* compute_vertices as layout/inductor_spiral/ind_spiral_ring.py builds    *)
(* its ring.  A rectangle is <<xl, yl, xh, yh>>; a fill tile is kept as    *)
(* its lower-left corner <<xl, yl>>.                                       *)

MaxFillW == 6
MaxFillSp == 2
MaxRingSp == 9
MaxTermLen == 10

\* fill_specs, or <<>> when w_fill is false
FillSpecs ==
    {[fill_w |-> MaxFillW - 2, fill_sp |-> 1, inside_ring |-> TRUE, outside_ring |-> TRUE],
     [fill_w |-> MaxFillW, fill_sp |-> MaxFillSp, inside_ring |-> TRUE, outside_ring |-> TRUE]}

\* ring_specs, or <<>> when w_ring is false
RingSpecs == [width : {MaxWidth}, spacing : {MaxRingSp}]

\* the parameters of IndWrap that IndCore does not have
WrapInputs ==
    [ring_specs : RingSpecs \cup {<<>>}, fill_specs : FillSpecs, term_len : {0}]
    \cup [ring_specs : RingSpecs, fill_specs : {<<>>}, term_len : {MaxTermLen}]
    \cup [ring_specs : RingSpecs,
          fill_specs : {[fill_w |-> MaxFillW, fill_sp |-> 1, inside_ring |-> FALSE, outside_ring |-> TRUE],
                        [fill_w |-> MaxFillW, fill_sp |-> 1, inside_ring |-> TRUE, outside_ring |-> FALSE]},
          term_len : {MaxTermLen}]

BBoxW(b) == b[3] - b[1]

BBoxH(b) == b[4] - b[2]

\* the IndRing of draw_layout, lines 93-109: its turn_coords and bbox
WrapRingCoords(ring_width, radius_x, radius_y, gap) ==
    LET v == compute_vertices(4, 1, radius_x, radius_y, ring_width, 0)[1]
        off == radius_x + FloorDiv(ring_width, 2)
        gap2 == CeilDiv(gap, 2)
    IN  <<<<off + gap2, At(v, 0)[2]>>>> \o v \o <<<<off - gap2, Last(v)[2]>>>>

WrapRingBBox(ring_width, radius_x, radius_y) ==
    <<0, 0, 2 * radius_x + ring_width, 2 * radius_y + ring_width>>

\* lines 91-118: the ring, or none, and the placement of the core
WrapRing ==
    /\ prog = "IndCore" /\ pc = "done"
    /\ prog' = "IndWrap"
    /\ pc' = "leads"
    /\ \E inp \in WrapInputs : \E ring_specs \in {inp.ring_specs}, fill_specs \in {inp.fill_specs}, term_len \in {inp.term_len} :
          IF ring_specs # <<>>
          THEN LET rx == params.radius_x + FloorDiv(params.width, 2) + ring_specs.spacing + FloorDiv(ring_specs.width, 2)
                   ry == params.radius_y + FloorDiv(params.width, 2) + ring_specs.spacing + FloorDiv(ring_specs.width, 2)
                   gap == params.term_sp + 2 * params.width + 2 * ring_specs.spacing + ring_specs.width
               IN  /\ loc' = [term_len |-> term_len, fill_specs |-> fill_specs,
                              ring_width |-> ring_specs.width,
                              ring_turn_coords |-> WrapRingCoords(ring_specs.width, rx, ry, gap),
                              dx |-> ring_specs.width + ring_specs.spacing,
                              dy |-> ring_specs.width + ring_specs.spacing,
                              leads |-> <<>>, fill_in |-> {}, fill_out |-> {}]
                   /\ actual_bbox' = WrapRingBBox(ring_specs.width, rx, ry)
          ELSE /\ loc' = [term_len |-> term_len, fill_specs |-> fill_specs,
                          ring_width |-> 0, ring_turn_coords |-> <<>>,
                          dx |-> 0, dy |-> 0,
                          leads |-> <<>>, fill_in |-> {}, fill_out |-> {}]
               /\ actual_bbox' = actual_bbox
    /\ UNCHANGED <<params, err, vertices, tidx, turn_coords, insts, paths,
                   vias, term_coords, feasibility, ret>>

SetMax2(a, b) == IF a >= b THEN a ELSE b

SetMin2(a, b) == IF a <= b THEN a ELSE b

\* lines 161-174: the two lead rectangles of _draw_leads
draw_leads(width, term_len, tc, res1_l, res2_l) ==
    LET term_ext == width + SetMax2(res1_l, res2_l) + 2 * width
        tl == SetMax2(term_ext, term_len)
        lower == SetMin2(0, tc[1][2] - tl)
        upper == tc[1][2]
    IN  <<<<tc[1][1] - FloorDiv(width, 2), lower, tc[1][1] + FloorDiv(width, 2), upper>>,
          <<tc[2][1] - FloorDiv(width, 2), lower, tc[2][1] + FloorDiv(width, 2), upper>>>>

\* lines 120-131: the leads, at the terminals of the core moved by (dx, dy)
WrapLeads ==
    /\ prog = "IndWrap" /\ pc = "leads"
    /\ LET tc == [k \in 1..Len(term_coords) |-> <<term_coords[k][1] + loc.dx, term_coords[k][2] + loc.dy>>]
       IN  loc' = [loc EXCEPT !.leads = draw_leads(params.width, loc.term_len, tc, FloorDiv(params.width, 2), FloorDiv(params.width, 4))]
    /\ pc' = "fill"
    /\ UNCHANGED <<prog, params, err, vertices, tidx, turn_coords, insts, paths,
                   vias, term_coords, actual_bbox, feasibility, ret>>

\* lines 218, 222: the number of tiles along a side of length len
FillNum(len, fill_w, fill_sp) == FloorDiv(len + fill_sp, fill_w + fill_sp)

\* faulty variant of FillStart: the grid starts at the edge of the region
FillStart_AtEdge(lo, len, fill_w, fill_sp) == lo

\* lines 219-220, 223-224: the coordinate of the first tile along a side
\* that starts at lo and has length len
FillStart(lo, len, fill_w, fill_sp) ==
    lo + FloorDiv(len - (FillNum(len, fill_w, fill_sp) * (fill_w + fill_sp) - fill_sp), 2)

\* lines 226-229: the tiles of the grid laid in rectangle b
FillGrid(b, fill_w, fill_sp) ==
    {<<FillStart(b[1], BBoxW(b), fill_w, fill_sp) + idx * (fill_w + fill_sp), FillStart(b[2], BBoxH(b), fill_w, fill_sp) + jdx * (fill_w + fill_sp)>> : idx \in 0..(FillNum(BBoxW(b), fill_w, fill_sp) - 1), jdx \in 0..(FillNum(BBoxH(b), fill_w, fill_sp) - 1)}

\* lines 214-215 (octagon) and 318-319 (rectangle): the region of the
\* inside fill
FillBBoxIn(n_sides, in_l, in_r, w2, fill_sp, dx, dy) ==
    IF n_sides = 8
    THEN <<At(in_l, 2)[1] + w2 + fill_sp + dx, At(in_r, 1)[2] + w2 + fill_sp + dy,
           At(in_r, 2)[1] - w2 - fill_sp + dx, At(in_l, 1)[2] - w2 - fill_sp + dy>>
    ELSE <<At(in_l, 1)[1] + w2 + fill_sp + dx, At(in_r, 1)[2] + w2 + fill_sp + dy,
           At(in_r, 1)[1] - w2 - fill_sp + dx, At(in_l, 1)[2] - w2 - fill_sp + dy>>

\* line 216
FillBBoxIn2(in_l, in_r, w2, dx, dy) ==
    <<At(in_l, 1)[1] + w2 + dx, At(in_r, 2)[2] + w2 + dy,
      At(in_r, 1)[1] - w2 + dx, At(in_l, 2)[2] - w2 + dy>>

\* faulty variant of FillKeepIn8: the corner tests are left out
FillKeepIn8_NoCorners(t, bbox_in, bbox_in2, fill_w) == TRUE

\* lines 230-241: an inside tile of an octagon is kept when it passes the
\* four corner tests
FillKeepIn8(t, bbox_in, bbox_in2, fill_w) ==
    /\ ~(t[1] + t[2] < bbox_in[1] + bbox_in2[2])
    /\ ~(t[2] + fill_w - t[1] > bbox_in2[4] - bbox_in[1])
    /\ ~(t[2] - t[1] - fill_w < bbox_in2[2] - bbox_in[3])
    /\ ~(t[1] + t[2] + 2 * fill_w > bbox_in[3] + bbox_in2[4])

\* lines 251-252 (octagon) and 340-341 (rectangle)
FillBBoxOut(n_sides, out_l, out_r, w2, fill_sp, dx, dy) ==
    IF n_sides = 8
    THEN <<At(out_l, 2)[1] - w2 + dx, At(out_r, 1)[2] - w2 + dy,
           At(out_r, 2)[1] + w2 + dx, At(out_l, 1)[2] + w2 + dy>>
    ELSE <<At(out_l, 1)[1] - w2 - fill_sp + dx, At(out_r, 1)[2] - w2 - fill_sp + dy,
           At(out_r, 1)[1] + w2 + fill_sp + dx, At(out_l, 1)[2] + w2 + fill_sp + dy>>

\* lines 249-250
FillBBoxOut2(out_l, out_r, w2, fill_sp, dx, dy) ==
    <<At(out_l, 1)[1] - w2 - fill_sp + dx, At(out_r, 2)[2] - w2 - fill_sp + dy,
      At(out_r, 1)[1] + w2 + fill_sp + dx, At(out_l, 2)[2] + w2 + fill_sp + dy>>

\* lines 260-261 and 349-350: the region inside the ring
FillRBBox(ring_turn_coords, rw2, fill_sp) ==
    <<At(ring_turn_coords, 3)[1] + rw2 + fill_sp, At(ring_turn_coords, 1)[2] + rw2 + fill_sp,
      At(ring_turn_coords, 1)[1] - rw2 - fill_sp, At(ring_turn_coords, 3)[2] - rw2 - fill_sp>>

\* lines 277-279 and 366-368: the keep-out below the coil
FillKeepOutBand(t, xl, xh, yl, fill_w, fill_sp) ==
    /\ xl < t[1] /\ t[1] < xh - fill_w
    /\ t[2] + fill_w < yl - fill_sp

\* lines 280-291 and 369-380: the tile is left of, right of, above or below
\* the coil
FillBeside(t, bbox_out, fill_w, fill_sp) ==
    \/ t[1] + fill_w < bbox_out[1] - fill_sp
    \/ t[1] > bbox_out[3] + fill_sp
    \/ t[2] > bbox_out[4] + fill_sp
    \/ t[2] + fill_w < bbox_out[2] - fill_sp

\* lines 292-303: the tile is beyond one of the four chamfers
FillBeyondCorner(t, bbox_out, bbox_out2, fill_w) ==
    \/ t[1] + t[2] + 2 * fill_w < bbox_out[1] + bbox_out2[2]
    \/ t[2] - t[1] - fill_w > bbox_out2[4] - bbox_out[1]
    \/ t[2] + fill_w - t[1] < bbox_out2[2] - bbox_out[3]
    \/ t[1] + t[2] > bbox_out[3] + bbox_out2[4]

\* lines 187-382: _draw_fill; n_sides is 4 or 8.  The regions, the grids
\* and the tiles that are drawn
draw_fill(n_sides, fill_specs, core_turn_coords, width, dx, dy, ring_turn_coords, ring_width) ==
    LET fill_w == fill_specs.fill_w
        fill_sp == fill_specs.fill_sp
        w2 == FloorDiv(width, 2)
        rw2 == FloorDiv(ring_width, 2)
        in_l == Last(core_turn_coords).left
        in_r == Last(core_turn_coords).right
        out_l == At(core_turn_coords, 0).left
        out_r == At(core_turn_coords, 0).right
        bbox_in == FillBBoxIn(n_sides, in_l, in_r, w2, fill_sp, dx, dy)
        bbox_in2 == FillBBoxIn2(in_l, in_r, w2, dx, dy)
        bbox_out == FillBBoxOut(n_sides, out_l, out_r, w2, fill_sp, dx, dy)
        bbox_out2 == FillBBoxOut2(out_l, out_r, w2, fill_sp, dx, dy)
        has_out == fill_specs.outside_ring /\ (n_sides = 8 \/ ring_turn_coords # <<>>)
        rbbox == IF ring_turn_coords # <<>> THEN FillRBBox(ring_turn_coords, rw2, fill_sp) ELSE bbox_out
        grid_in == IF fill_specs.inside_ring THEN FillGrid(bbox_in, fill_w, fill_sp) ELSE {}
        grid_out == IF has_out THEN FillGrid(rbbox, fill_w, fill_sp) ELSE {}
    IN  [bbox_in |-> IF fill_specs.inside_ring THEN bbox_in ELSE <<>>,
         rbbox |-> IF has_out THEN rbbox ELSE <<>>,
         grid_in |-> grid_in,
         grid_out |-> grid_out,
         fill_in |-> IF n_sides = 8
                     THEN {t \in grid_in : FillKeepIn8(t, bbox_in, bbox_in2, fill_w)}
                     ELSE grid_in,
         fill_out |-> IF n_sides = 8
                      THEN {t \in grid_out : /\ ~FillKeepOutBand(t, bbox_out2[1], bbox_out2[3], bbox_out[2], fill_w, fill_sp)
                                             /\ \/ FillBeside(t, bbox_out, fill_w, fill_sp)
                                                \/ FillBeyondCorner(t, bbox_out, bbox_out2, fill_w)}
                      ELSE {t \in grid_out : /\ ~FillKeepOutBand(t, bbox_out[1], bbox_out[3], bbox_out[2], fill_w, fill_sp)
                                             /\ FillBeside(t, bbox_out, fill_w, fill_sp)}]

\* lines 133-149: the fill, when w_fill is set, and the size
WrapFill ==
    /\ prog = "IndWrap" /\ pc = "fill"
    /\ IF loc.fill_specs # <<>>
       THEN \E r \in {draw_fill(NSides(params.ind_shape), loc.fill_specs, turn_coords, params.width, loc.dx, loc.dy, loc.ring_turn_coords, loc.ring_width)} :
               /\ loc' = [loc EXCEPT !.fill_in = r.fill_in, !.fill_out = r.fill_out]
               /\ ret' = r
       ELSE UNCHANGED <<loc, ret>>
    /\ pc' = "done"
    /\ UNCHANGED <<prog, params, err, vertices, tidx, turn_coords, insts, paths,
                   vias, term_coords, actual_bbox, feasibility>>

NextWrap == WrapRing \/ WrapLeads \/ WrapFill

SpecWrap == InitCore /\ [][NextCore \/ NextWrap]_vars

---------------------------------------------------------------------------
(* IndTemplate.draw_sqr_guardring called on its own, on any list of layer  *)
(* ids.                                                                    *)

MaxListLen == 3

\* layer_list: every list of at most MaxListLen layer ids
GuardLayerLists == UNION {[1..n -> 1..MaxLayer] : n \in 0..MaxListLen}

GuardParams ==
    [halflen : {RadiusStep}, width : {1, MaxWidth}, opening : {1, MaxOpening},
     ind_layid : {2, 3}, layer_list : GuardLayerLists,
     orient : {"R0", "R180", "R270"}]

InitGuard ==
    /\ prog = "draw_sqr_guardring"
    /\ params \in GuardParams
    /\ pc = "call"
    /\ err = "none"
    /\ vertices = <<>>
    /\ tidx = 0
    /\ turn_coords = <<>>
    /\ insts = <<>>
    /\ paths = <<>>
    /\ vias = <<>>
    /\ term_coords = <<>>
    /\ actual_bbox = <<0, 0, 0, 0>>
    /\ loc = <<>>
    /\ feasibility = TRUE
    /\ ret = <<>>

\* util.py lines 196-272: the whole call
GuardCall ==
    /\ prog = "draw_sqr_guardring" /\ pc = "call"
    /\ \E r \in {draw_sqr_guardring(params.halflen, params.width, params.opening, params.ind_layid, params.layer_list, params.orient)} :
          IF r.err # "none"
          THEN /\ Raise(r.err)
               /\ UNCHANGED <<paths, vias, ret>>
          ELSE /\ paths' = r.paths
               /\ vias' = r.vias
               /\ ret' = <<r.path_arr, r.length>>
               /\ pc' = "done" /\ err' = err
    /\ UNCHANGED <<prog, params, vertices, tidx, turn_coords, insts,
                   term_coords, actual_bbox, loc, feasibility>>

NextGuard == GuardCall

SpecGuard == InitGuard /\ [][NextGuard]_vars

---------------------------------------------------------------------------
(* IndTemplate._draw_fill of layout/inductor/util.py: the keep-out boxes   *)
(* taken from the segment start points of a turn.                          *)

\* lines 907 and 938: coord = [path[0] for path in path_in]
FillStartPts(path) == [k \in 1..Len(path) |-> path[k][1]]

\* lines 942-943: the box around the outermost turn
TemplBBoxOut(coord, width) ==
    <<At(coord, 5)[1] - FloorDiv(width, 2), At(coord, 0)[2] - FloorDiv(width, 2),
      At(coord, 1)[1] + FloorDiv(width, 2), At(coord, 3)[2] + FloorDiv(width, 2)>>

---------------------------------------------------------------------------
(* IndSpiralCore.draw_layout (layout/inductor_spiral/ind_spiral_core.py)   *)
(* and compute_vertices of layout/inductor_spiral/util.py.  A rectangle    *)
(* and a pin are records [name, lay, bbox] with bbox = <<xl, yl, xh, yh>>. *)

MaxLeadW == 10

RECURSIVE SpiralLoop(_, _, _, _, _, _, _, _)
\* util.py lines 20-36: the turns turn_idx .. n_turns - 1 of the loop of
\* compute_vertices, with the working radius at the start of the turn; the
\* result holds the vertices appended and the values the radius takes
SpiralLoop(turn_idx, n_turns, xm, radius, width, spacing, dx, interleave) ==
    IF turn_idx >= n_turns THEN [vertices |-> <<>>, radii |-> <<>>]
    ELSE LET ym == xm
             new_radius == IF interleave THEN radius - (width + spacing) ELSE radius
             new_radius2 == new_radius - (width + spacing)
             rest == SpiralLoop(turn_idx + 1, n_turns, xm, new_radius2, width, spacing, dx, interleave)
         IN  [vertices |->
                 <<<<xm - radius, ym - radius>>,
                   <<xm - radius, ym + new_radius>>,
                   <<xm + new_radius, ym + new_radius>>,
                   <<xm + new_radius, ym - new_radius2>>>>
                 \o (IF turn_idx = n_turns - 1
                     THEN <<<<xm - dx, ym - new_radius2>>>> ELSE <<>>)
                 \o rest.vertices,
              radii |-> <<new_radius, new_radius2>> \o rest.radii]

\* util.py lines 16-38: compute_vertices of the spiral; radii are the
\* values of new_radius and new_radius2 in the order they are computed
spiral_compute_vertices(n_turns, radius, width, spacing, dx, interleave, draw_lead) ==
    LET xm == FloorDiv(width, 2) + radius
        ym == xm
        lp == SpiralLoop(0, n_turns, xm, radius, width, spacing, dx, interleave)
    IN  [vertices |-> <<<<IF draw_lead THEN xm - dx ELSE xm + dx, ym - radius>>>>
                      \o lp.vertices,
         radii |-> lp.radii]

\* ind_spiral_core.py lines 65-68 (ind_interleave.py 58-61 with interleave,
\* ind_spiral.py 53-56 without): the feasibility assertion fails
SpiralInfeasible(n_turns, radius, width, spacing, interleave) ==
    LET outer_radius == radius + FloorDiv(width, 2)
        turns == IF interleave THEN 2 * n_turns + 1 ELSE n_turns + 1
    IN  ~(outer_radius >= turns * (width + spacing))

Rect(name, lay, bbox) == [name |-> name, lay |-> lay, bbox |-> bbox]

\* ind_spiral_core.py lines 52-112: the layout of one spiral
IndSpiralCore(n_turns, lay_id, radius, width, spacing, interleave, lead_width, lead_spacing, draw_lead0) ==
    LET draw_lead == interleave \/ draw_lead0
        outer_radius == radius + FloorDiv(width, 2)
        dx == FloorDiv(lead_width + lead_spacing, 2)
        cv == spiral_compute_vertices(n_turns, radius, width, spacing, dx, interleave, draw_lead)
        v == cv.vertices
        port_lay_id == IF interleave THEN lay_id - 1 ELSE lay_id
        term0 == At(v, 0)
        term1 == Last(v)
        via0_bbox == <<term0[1] - FloorDiv(lead_width, 2), term0[2] - FloorDiv(width, 2),
                       term0[1] + FloorDiv(lead_width, 2), term0[2] + FloorDiv(width, 2)>>
        via1_bbox == <<term1[1] - FloorDiv(lead_width, 2), term1[2] - FloorDiv(width, 2),
                       term1[1] + FloorDiv(lead_width, 2), term1[2] + FloorDiv(width, 2)>>
        lead0_inter == <<via0_bbox[1], 0, via0_bbox[3], via0_bbox[4]>>
        lead1_inter == <<via1_bbox[1], via1_bbox[2], via1_bbox[3], 2 * outer_radius>>
        lead0_plain == <<term0[1] - FloorDiv(lead_width, 2), 0,
                         term0[1] + FloorDiv(lead_width, 2), term0[2] + FloorDiv(width, 2)>>
        leads == IF interleave
                 THEN <<Rect("term0", port_lay_id, lead0_inter),
                        Rect("term1", port_lay_id, lead1_inter)>>
                 ELSE IF draw_lead
                 THEN <<Rect("term0", port_lay_id, lead0_plain)>>
                 ELSE <<>>
    IN  [vertices |-> v,
         radii |-> cv.radii,
         vertex_out |-> At(v, 0),
         vertex_in |-> Last(v),
         paths |-> [k \in 1..(Len(v) - 1) |-> Path(lay_id, <<v[k], v[k + 1]>>)],
         rects |-> leads,
         pins |-> leads,
         vias |-> IF interleave
                  THEN <<ViaRec(port_lay_id, lay_id, via0_bbox),
                         ViaRec(port_lay_id, lay_id, via1_bbox)>>
                  ELSE <<>>,
         actual_bbox |-> <<0, 0, 2 * outer_radius, 2 * outer_radius>>]

SpiralCoreParams ==
    [n_turns : 1..MaxTurns, lay_id : {MaxLayer}, radius : RadiusSet,
     width : 1..MaxWidth, spacing : 1..MaxSpacing, interleave : BOOLEAN,
     lead_width : {1, MaxWidth, MaxLeadW}, lead_spacing : {1, MaxSpacing},
     draw_lead : BOOLEAN]

\* the attributes and the shapes of a spiral template before draw_layout
NoSpiral ==
    [radii |-> <<>>, vertex_out |-> <<>>, vertex_in |-> <<>>, rects |-> <<>>,
     pins |-> <<>>]

InitSpiralCore ==
    /\ prog = "IndSpiralCore"
    /\ params \in SpiralCoreParams
    /\ pc = "check"
    /\ err = "none"
    /\ vertices = <<>>
    /\ tidx = 0
    /\ turn_coords = <<>>
    /\ insts = <<>>
    /\ paths = <<>>
    /\ vias = <<>>
    /\ term_coords = <<>>
    /\ actual_bbox = <<0, 0, 0, 0>>
    /\ loc = NoSpiral
    /\ feasibility = TRUE
    /\ ret = <<>>

\* ind_spiral_core.py lines 52-68: the parameters and the assertion
SpiralCoreCheck ==
    /\ prog = "IndSpiralCore" /\ pc = "check"
    /\ IF SpiralInfeasible(params.n_turns, params.radius, params.width,
                           params.spacing, params.interleave)
       THEN Raise("AssertionError")
       ELSE pc' = "draw" /\ err' = err
    /\ UNCHANGED <<prog, params, vertices, tidx, turn_coords, insts, paths,
                   vias, term_coords, actual_bbox, loc, feasibility, ret>>

\* ind_spiral_core.py lines 70-112: vertices, paths, leads and size
SpiralCoreDraw ==
    /\ prog = "IndSpiralCore" /\ pc = "draw"
    /\ \E r \in {IndSpiralCore(params.n_turns, params.lay_id, params.radius, params.width, params.spacing, params.interleave, params.lead_width, params.lead_spacing, params.draw_lead)} :
          /\ vertices' = r.vertices
          /\ paths' = r.paths
          /\ vias' = r.vias
          /\ loc' = [radii |-> r.radii, vertex_out |-> r.vertex_out,
                     vertex_in |-> r.vertex_in, rects |-> r.rects,
                     pins |-> r.pins]
          /\ actual_bbox' = r.actual_bbox
    /\ pc' = "done"
    /\ UNCHANGED <<prog, params, err, tidx, turn_coords, insts, term_coords,
                   feasibility, ret>>

NextSpiralCore == SpiralCoreCheck \/ SpiralCoreDraw

SpecSpiralCore == InitSpiralCore /\ [][NextSpiralCore]_vars

---------------------------------------------------------------------------
(* IndInterleave.draw_layout and _draw_leads                               *)
(* (layout/inductor_spiral/ind_interleave.py): two interleaved spirals,    *)
(* the second one being the first one rotated by 180 degrees.  An instance *)
(* is kept with its shapes in the coordinates of the parent.               *)

InterParams ==
    [n_turns : 1..MaxTurns, lay_id : {MaxLayer}, radius : RadiusSet,
     width : 1..MaxWidth, spacing : 1..MaxSpacing,
     lead_width : {1, MaxWidth, 2 * MaxWidth}, lead_spacing : {1, MaxSpacing}]

NoInterLeads ==
    [res |-> <<>>, rects |-> <<>>, pins |-> <<>>, lead_lower |-> 0,
     lead_upper |-> 0]

InitInterleave ==
    /\ prog = "IndInterleave"
    /\ params \in InterParams
    /\ pc = "check"
    /\ err = "none"
    /\ vertices = <<>>
    /\ tidx = 0
    /\ turn_coords = <<>>
    /\ insts = <<>>
    /\ paths = <<>>
    /\ vias = <<>>
    /\ term_coords = <<>>
    /\ actual_bbox = <<0, 0, 0, 0>>
    /\ loc = NoInterLeads
    /\ feasibility = TRUE
    /\ ret = <<>>

\* lines 48-61: the parameters and the assertion
InterCheck ==
    /\ prog = "IndInterleave" /\ pc = "check"
    /\ IF SpiralInfeasible(params.n_turns, params.radius, params.width,
                           params.spacing, TRUE)
       THEN Raise("AssertionError")
       ELSE pc' = "cores" /\ err' = err
    /\ UNCHANGED <<prog, params, vertices, tidx, turn_coords, insts, paths,
                   vias, term_coords, actual_bbox, loc, feasibility, ret>>

\* Transform(dx, dy, mode=R180) applied to a point and to a box
R180Pt(dx, dy, p) == <<dx - p[1], dy - p[2]>>
R180Box(dx, dy, b) == <<dx - b[3], dy - b[4], dx - b[1], dy - b[2]>>

\* line 71: the transform of the second core, applied to a point
InterXform(bbox, pt) == R180Pt(bbox[3], bbox[4], pt)

\* an instance of the core master m whose points are mapped by the
\* transform: identity for XCORE0, InterXform for XCORE1
InterInst(name, m, rotated) ==
    [name |-> name,
     path_list |-> [k \in 1..Len(m.paths) |->
         IF rotated
         THEN Path(m.paths[k].lay,
                   <<InterXform(m.actual_bbox, m.paths[k].pts[1]),
                     InterXform(m.actual_bbox, m.paths[k].pts[2])>>)
         ELSE m.paths[k]],
     pins |-> [k \in 1..Len(m.pins) |->
         IF rotated
         THEN Rect(m.pins[k].name, m.pins[k].lay,
                   R180Box(m.actual_bbox[3], m.actual_bbox[4], m.pins[k].bbox))
         ELSE m.pins[k]]]

\* lines 63-72: the core master and its two instances
InterCores ==
    /\ prog = "IndInterleave" /\ pc = "cores"
    /\ \E m \in {IndSpiralCore(params.n_turns, params.lay_id, params.radius, params.width, params.spacing, TRUE, params.lead_width, params.lead_spacing, TRUE)} :
          /\ insts' = <<InterInst("XCORE0", m, FALSE),
                        InterInst("XCORE1", m, TRUE)>>
          /\ actual_bbox' = m.actual_bbox
    /\ pc' = "leads"
    /\ UNCHANGED <<prog, params, err, vertices, tidx, turn_coords, paths,
                   vias, term_coords, loc, feasibility, ret>>

\* lines 82-123: _draw_leads(lay_id, plus0, minus0, plus1, minus1)
inter_draw_leads(lay_id, plus0, minus0, plus1, minus1) ==
    LET port_lay_id == lay_id - 1
        mres_w == BBoxW(plus0)
        mres_l0 == FloorDiv(mres_w, 4)
        mres_l1 == FloorDiv(mres_w, 2)
        mres_l2 == mres_w
        mres_l3 == mres_w * 2
        mres_sp == mres_l0
        lower == plus0[2] - mres_l3 - mres_sp - mres_w
        upper == plus1[4] + mres_l3 + mres_sp + mres_w
    IN  [res |-> <<Rect("plus0", port_lay_id, <<plus0[1], plus0[2] - mres_l0, plus0[3], plus0[2]>>),
                   Rect("minus1", port_lay_id, <<minus1[1], plus0[2] - mres_l3, minus1[3], plus0[2]>>),
                   Rect("plus1", port_lay_id, <<plus1[1], plus1[4], plus1[3], plus1[4] + mres_l2>>),
                   Rect("minus0", port_lay_id, <<minus0[1], plus1[4], minus0[3], plus1[4] + mres_l1>>)>>,
         rects |-> <<Rect("plus0", port_lay_id, <<plus0[1], lower, plus0[3], plus0[4]>>),
                     Rect("minus1", port_lay_id, <<minus1[1], lower, minus1[3], plus0[4]>>),
                     Rect("plus1", port_lay_id, <<plus1[1], plus1[2], plus1[3], upper>>),
                     Rect("minus0", port_lay_id, <<minus0[1], minus0[2], minus0[3], upper>>)>>,
         pins |-> <<Rect("plus0", port_lay_id, <<plus0[1], lower, plus0[3], lower + mres_w>>),
                    Rect("minus1", port_lay_id, <<minus1[1], lower, minus1[3], lower + mres_w>>),
                    Rect("plus1", port_lay_id, <<plus1[1], upper - mres_w, plus1[3], upper>>),
                    Rect("minus0", port_lay_id, <<minus0[1], upper - mres_w, minus0[3], upper>>)>>,
         lead_lower |-> lower,
         lead_upper |-> upper]

\* lines 74-80: the leads on the pins of the two cores, and the size
InterLeads ==
    /\ prog = "IndInterleave" /\ pc = "leads"
    /\ loc' = inter_draw_leads(params.lay_id, insts[1].pins[1].bbox,
                               insts[1].pins[2].bbox, insts[2].pins[1].bbox,
                               insts[2].pins[2].bbox)
    /\ pc' = "done"
    /\ UNCHANGED <<prog, params, err, vertices, tidx, turn_coords, insts,
                   paths, vias, term_coords, actual_bbox, feasibility, ret>>

NextInterleave == InterCheck \/ InterCores \/ InterLeads

SpecInterleave == InitInterleave /\ [][NextInterleave]_vars

---------------------------------------------------------------------------
(* IndSpiral.draw_layout (layout/inductor_spiral/ind_spiral.py): one       *)
(* spiral per layer from lay_id down to bot_lay_id, every other one        *)
(* mirrored, joined by vias.  tidx is _lay_id, the layer of the loop.      *)

MaxStackLay == 5

StackParams ==
    [n_turns : {1, 2}, lay_id : 1..MaxStackLay, bot_lay_id : 1..MaxStackLay,
     radius : {RadiusStep * 2, RadiusStep * MaxRadiusSteps},
     width : {1, MaxWidth}, spacing : {1, MaxSpacing},
     lead_width : {1, MaxWidth}, lead_spacing : {1, MaxSpacing}]

InitStack ==
    /\ prog = "IndSpiral"
    /\ params \in StackParams
    /\ pc = "check"
    /\ err = "none"
    /\ vertices = <<>>
    /\ tidx = 0
    /\ turn_coords = <<>>
    /\ insts = <<>>
    /\ paths = <<>>
    /\ vias = <<>>
    /\ term_coords = <<>>
    /\ actual_bbox = <<0, 0, 0, 0>>
    /\ loc = NoInterLeads
    /\ feasibility = TRUE
    /\ ret = <<>>

\* lines 42-43: n_layers & 1
StackLayersOdd(lay_id, bot_lay_id) == (lay_id - bot_lay_id + 1) % 2 = 1

\* lines 38-56: the layer count and the feasibility assertion
StackCheck ==
    /\ prog = "IndSpiral" /\ pc = "check"
    /\ IF StackLayersOdd(params.lay_id, params.bot_lay_id)
       THEN Raise("ValueError") /\ tidx' = tidx
       ELSE IF SpiralInfeasible(params.n_turns, params.radius, params.width,
                                params.spacing, FALSE)
       THEN Raise("AssertionError") /\ tidx' = tidx
       ELSE pc' = "layers" /\ err' = err /\ tidx' = params.lay_id
    /\ UNCHANGED <<prog, params, vertices, turn_coords, insts, paths, vias,
                   term_coords, actual_bbox, loc, feasibility, ret>>

\* Transform(dx, mode=MY) applied to a point and to a box
MYPt(dx, p) == <<dx - p[1], p[2]>>
MYBox(dx, b) == <<dx - b[3], b[2], dx - b[1], b[4]>>

\* line 67: the spiral of layer _lay_id is mirrored
StackFlip(lay_id, _lay_id) == (lay_id % 2) # (_lay_id % 2)

\* lines 76 and 84: the instance of the master m on layer _lay_id
StackInst(_lay_id, m, flip) ==
    [name |-> _lay_id,
     path_list |-> [k \in 1..Len(m.paths) |->
         IF flip
         THEN Path(m.paths[k].lay,
                   <<MYPt(m.actual_bbox[3], m.paths[k].pts[1]),
                     MYPt(m.actual_bbox[3], m.paths[k].pts[2])>>)
         ELSE m.paths[k]],
     pins |-> [k \in 1..Len(m.pins) |->
         IF flip
         THEN Rect(m.pins[k].name, m.pins[k].lay,
                   MYBox(m.actual_bbox[3], m.pins[k].bbox))
         ELSE m.pins[k]]]

\* lines 79-81 and 87-90: the box of the via at the end v of the spiral,
\* shifted by xshift to the centre (sign -1 at the outer end, 1 at the
\* inner end)
StackViaBox(v, sign, xshift, width) ==
    <<v[1] + sign * xshift - xshift, v[2] - FloorDiv(width, 2),
      v[1] + sign * xshift + xshift, v[2] + FloorDiv(width, 2)>>

\* faulty variant of StackVias: the mirrored spiral of the bottom layer
\* gets its outer via as well
StackVias_AlsoBottom(_lay_id, bot_lay_id, flip, m, xshift, width) ==
    IF flip
    THEN <<ViaRec(_lay_id - 1, _lay_id, StackViaBox(m.vertex_out, -1, xshift, width))>>
    ELSE <<ViaRec(_lay_id - 1, _lay_id, StackViaBox(m.vertex_in, 1, xshift, width))>>

\* lines 74-91: the vias drawn with the spiral of layer _lay_id
StackVias(_lay_id, bot_lay_id, flip, m, xshift, width) ==
    IF flip
    THEN (IF _lay_id # bot_lay_id
          THEN <<ViaRec(_lay_id - 1, _lay_id, StackViaBox(m.vertex_out, -1, xshift, width))>>
          ELSE <<>>)
    ELSE <<ViaRec(_lay_id - 1, _lay_id, StackViaBox(m.vertex_in, 1, xshift, width))>>

\* lines 59-106: one pass of the loop over the layers
StackLayer ==
    /\ prog = "IndSpiral" /\ pc = "layers"
    /\ tidx >= params.bot_lay_id
    /\ LET draw_lead == tidx = params.lay_id \/ tidx = params.bot_lay_id
           flip == StackFlip(params.lay_id, tidx)
           xshift == FloorDiv(params.lead_width + params.lead_spacing, 2)
       IN  \E m \in {IndSpiralCore(params.n_turns, tidx, params.radius, params.width, params.spacing, FALSE, params.lead_width, params.lead_spacing, draw_lead)} :
           \E inst \in {StackInst(tidx, m, flip)} :
              /\ insts' = Append(insts, inst)
              /\ vias' = vias \o StackVias(tidx, params.bot_lay_id, flip, m,
                                           xshift, params.width)
              /\ IF draw_lead
                 THEN LET term == inst.pins[1].bbox
                          mres_w == BBoxW(term)
                          mres_l == FloorDiv(mres_w, 2)
                          lower == term[2] - mres_l - FloorDiv(mres_w, 4) - mres_w
                          name == IF tidx = params.lay_id THEN "plus" ELSE "minus"
                      IN  loc' = [loc EXCEPT
                             !.res = Append(@, Rect(name, tidx,
                                 <<term[1], term[2] - mres_l, term[3], term[2]>>)),
                             !.rects = Append(@, Rect(name, tidx,
                                 <<term[1], lower, term[3], term[4]>>)),
                             !.pins = Append(@, Rect(name, tidx,
                                 <<term[1], lower, term[3], lower + mres_w>>)),
                             !.lead_lower = lower]
                 ELSE loc' = loc
    /\ tidx' = tidx - 1
    /\ UNCHANGED <<prog, params, pc, err, vertices, turn_coords, paths,
                   term_coords, actual_bbox, feasibility, ret>>

\* lines 108-112: the size, after the loop
StackSize ==
    /\ prog = "IndSpiral" /\ pc = "layers"
    /\ tidx < params.bot_lay_id
    /\ actual_bbox' = <<0, 0, 2 * (params.radius + FloorDiv(params.width, 2)),
                        2 * (params.radius + FloorDiv(params.width, 2))>>
    /\ pc' = "done"
    /\ UNCHANGED <<prog, params, err, vertices, tidx, turn_coords, insts,
                   paths, vias, term_coords, loc, feasibility, ret>>

NextStack == StackCheck \/ StackLayer \/ StackSize

SpecStack == InitStack /\ [][NextStack]_vars

---------------------------------------------------------------------------
(* EmSim.run_simulation, gen_nport and gen_model                           *)
(* (measurement/emsim/em_sim.py).  params is the set of files that exist   *)
(* before the run; loc.files is the set that exists now.  The files are    *)
(* "proc" and "gds" (the inputs _set_dir looks for), "log" (outfiles[-1]   *)
(* of _set_em_option), "y" (the Y-parameter file IndCal reads), "scs" and  *)
(* "sp" (outfiles of _set_mdl_option).  A return code is kept as a string  *)
(* so that None sits beside the numbers.  The steps are cut at the awaits  *)
(* of the two subprocesses.                                                *)

EmFiles == {"proc", "gds", "log", "y", "scs", "sp"}

\* lines 137, 144: what the emx run can leave behind
EmxOutfiles == {"log", "y"}

\* line 192: what modelgen can leave behind
MdlOutfiles == {"scs", "sp"}

\* lines 165, 210: async_new_subprocess gives None or the exit code
RetCodes == {"None", "0", "1"}

NoEmRun ==
    [files |-> {}, nport_rc |-> "unset", nport_log |-> FALSE,
     model_started |-> FALSE, model_rc |-> "unset", model_files |-> FALSE,
     collected |-> FALSE, indcal |-> FALSE]

InitEmSim ==
    /\ prog = "EmSim"
    /\ params \in SUBSET EmFiles
    /\ pc = "gen_nport"
    /\ err = "none"
    /\ vertices = <<>>
    /\ tidx = 0
    /\ turn_coords = <<>>
    /\ insts = <<>>
    /\ paths = <<>>
    /\ vias = <<>>
    /\ term_coords = <<>>
    /\ actual_bbox = <<0, 0, 0, 0>>
    /\ loc = [NoEmRun EXCEPT !.files = params]
    /\ feasibility = TRUE
    /\ ret = <<>>

\* lines 64-77: _set_dir, the message of the exception it raises
set_dir(files) ==
    IF ~("proc" \in files) THEN "Cannot find process file"
    ELSE IF ~("gds" \in files) THEN "Cannot find gds file"
    ELSE "none"

\* line 169: ret_code is None or ret_code != 0 or not outfiles[-1].exists()
NportFailed(ret_code, files) ==
    ret_code = "None" \/ ret_code # "0" \/ ~("log" \in files)

\* line 213: the same with both model files
ModelFailed(ret_code, files) ==
    ret_code = "None" \/ ret_code # "0" \/ ~("scs" \in files) \/ ~("sp" \in files)

\* lines 222, 224: batch_async_task([coro]) of the bag package, whose value
\* run_simulation drops.  What it does with an exception of the coroutine
\* is not in this repository: it either lets it out ("propagated") or hands
\* it back in the list of results ("collected").
batch_async_task(raised) ==
    IF raised THEN {"propagated", "collected"} ELSE {"returned"}

\* lines 221-222 and 153-165: gen_nport up to the await; after _set_dir
\* the log file is deleted and emx is started.  When _set_dir raises, the
\* coroutine ends here and batch_async_task returns.
EmNportStart ==
    /\ prog = "EmSim" /\ pc = "gen_nport"
    /\ \E e \in {set_dir(loc.files)} :
         IF e = "none"
         THEN /\ loc' = [loc EXCEPT !.files = loc.files \ {"log"}]
              /\ pc' = "emx" /\ err' = err
         ELSE \E out \in batch_async_task(TRUE) :
                 /\ loc' = [loc EXCEPT !.collected = (out = "collected")]
                 /\ IF out = "propagated"
                    THEN Raise(e)
                    ELSE pc' = "gen_model" /\ err' = err
    /\ UNCHANGED <<prog, params, vertices, tidx, turn_coords, insts,
                   paths, vias, term_coords, actual_bbox, feasibility, ret>>

\* lines 165-174 and 222: emx ends, gen_nport checks it, batch_async_task
\* returns
EmNportEnd ==
    /\ prog = "EmSim" /\ pc = "emx"
    /\ \E ret_code \in RetCodes, written \in SUBSET EmxOutfiles :
         \E files \in {loc.files \cup written} :
           \E out \in batch_async_task(NportFailed(ret_code, files)) :
              /\ loc' = [loc EXCEPT !.files = files,
                                    !.nport_rc = ret_code,
                                    !.nport_log = "log" \in files,
                                    !.collected = (out = "collected")]
              /\ IF out = "propagated"
                 THEN Raise("EMX stops with error.")
                 ELSE pc' = "gen_model" /\ err' = err
    /\ UNCHANGED <<prog, params, vertices, tidx, turn_coords, insts,
                   paths, vias, term_coords, actual_bbox, feasibility, ret>>

\* lines 223-224 and 195-210: gen_model up to the await; both model files
\* are deleted and modelgen is started
EmModelStart ==
    /\ prog = "EmSim" /\ pc = "gen_model"
    /\ loc' = [loc EXCEPT !.files = loc.files \ {"scs", "sp"},
                          !.model_started = TRUE]
    /\ pc' = "modelgen"
    /\ UNCHANGED <<prog, params, err, vertices, tidx, turn_coords, insts,
                   paths, vias, term_coords, actual_bbox, feasibility, ret>>

\* lines 210-218 and 224: modelgen ends, gen_model checks it,
\* batch_async_task returns
EmModelEnd ==
    /\ prog = "EmSim" /\ pc = "modelgen"
    /\ \E ret_code \in RetCodes, written \in SUBSET MdlOutfiles :
         \E files \in {loc.files \cup written} :
           \E out \in batch_async_task(ModelFailed(ret_code, files)) :
              /\ loc' = [loc EXCEPT !.files = files,
                                    !.model_rc = ret_code,
                                    !.model_files = {"scs", "sp"} \subseteq files,
                                    !.collected = loc.collected \/ out = "collected"]
              /\ IF out = "propagated"
                 THEN Raise("Model generation stops with error.")
                 ELSE pc' = "sym_ind_cal" /\ err' = err
    /\ UNCHANGED <<prog, params, vertices, tidx, turn_coords, insts,
                   paths, vias, term_coords, actual_bbox, feasibility, ret>>

\* line 226 and inductor_cal.py lines 18-65: the inductance is computed
\* from the Y-parameter file and printed; without the file sym_ind_cal
\* prints a message and returns None, which print(*None) cannot unpack
EmIndCal ==
    /\ prog = "EmSim" /\ pc = "sym_ind_cal"
    /\ loc' = [loc EXCEPT !.indcal = TRUE]
    /\ IF "y" \in loc.files
       THEN pc' = "done" /\ err' = err /\ ret' = <<"results">>
       ELSE Raise("TypeError") /\ ret' = ret
    /\ UNCHANGED <<prog, params, vertices, tidx, turn_coords, insts,
                   paths, vias, term_coords, actual_bbox, feasibility>>

NextEmSim ==
    \/ EmNportStart
    \/ EmNportEnd
    \/ EmModelStart
    \/ EmModelEnd
    \/ EmIndCal

SpecEmSim == InitEmSim /\ [][NextEmSim]_vars

---------------------------------------------------------------------------
(* round_up of layout/inductor/util.py and layout/inductor_spiral/util.py, *)
(* called on its own on the multiples of a quarter                         *)

MaxQuarters == 40

InitRound ==
    /\ prog = "round_up"
    /\ params \in [q : (-MaxQuarters)..MaxQuarters]
    /\ pc = "call"
    /\ err = "none"
    /\ vertices = <<>>
    /\ tidx = 0
    /\ turn_coords = <<>>
    /\ insts = <<>>
    /\ paths = <<>>
    /\ vias = <<>>
    /\ term_coords = <<>>
    /\ actual_bbox = <<0, 0, 0, 0>>
    /\ loc = <<>>
    /\ feasibility = TRUE
    /\ ret = <<>>

\* round_up(q / 4)
RoundCall ==
    /\ prog = "round_up" /\ pc = "call"
    /\ ret' = round_up(params.q * (SCALE \div 4))
    /\ pc' = "done"
    /\ UNCHANGED <<prog, params, err, vertices, tidx, turn_coords, insts, paths,
                   vias, term_coords, actual_bbox, loc, feasibility>>

SpecRound == InitRound /\ [][RoundCall]_vars

---------------------------------------------------------------------------
(* Properties of IndCore.draw_layout (layout/inductor/ind_core.py)         *)

IsCore == prog = "IndCore"
IsBak == prog = "IndCoreBak"

\* indices of the paths added on the bridge layer / on the coil layer
CoreBridgeIdx == {k \in 1..Len(paths) : paths[k].lay = params.lay_id - 1}
CoreLayIdx == {k \in 1..Len(paths) : paths[k].lay = params.lay_id}

\* a y coordinate in the upper half of the outer turn
CoreIsTop(y) ==
    2 * y > At(At(turn_coords, 0).left, 0)[2] + Last(At(turn_coords, 0).left)[2]

CoreTopBridges == {k \in CoreBridgeIdx : \A q \in 1..Len(paths[k].pts) :
                        CoreIsTop(paths[k].pts[q][2])}
CoreBotBridges == {k \in CoreBridgeIdx : \A q \in 1..Len(paths[k].pts) :
                        ~CoreIsTop(paths[k].pts[q][2])}

\* the end points of the top breaks / of the bottom breaks of the turns of
\* the older core
BakBreakPts(coords) ==
    {coords[t][q] : t \in {u \in 1..Len(coords) : coords[u] # <<>>},
                    q \in 1..2}

\* bridges of the older core, on either layer, that join top breaks / that
\* join bottom breaks
BakBridgeSeq == loc.bdg_upper_coord \o loc.bdg_lower_coord
BakTopBridges(seq) ==
    {k \in 1..Len(seq) : \A q \in 1..2 : seq[k][q] \in BakBreakPts(loc.top_coord)}
BakBotBridges(seq) ==
    {k \in 1..Len(seq) : \A q \in 1..2 : seq[k][q] \in BakBreakPts(loc.bot_coord)}

\* C1 as stated: with one turn no bridge-clearance error and no bridge;
\* with two turns exactly one top bridge and exactly one bottom bridge
\* (a bridge being a path on the bridge layer)
C1_Original ==
    /\ (IsCore /\ params.n_turns = 1) =>
          (err # "bridge_sp" /\ CoreBridgeIdx = {} /\ vias = <<>>)
    /\ (IsCore /\ params.n_turns = 2 /\ pc = "done") =>
          (Cardinality(CoreTopBridges) = 1 /\ Cardinality(CoreBotBridges) = 1)
    /\ (IsBak /\ params.n_turn = 1 /\ pc = "done") =>
          (BakBridgeSeq = <<>> /\ vias = <<>>)
    /\ (IsBak /\ params.n_turn = 2 /\ pc = "done") =>
          /\ Cardinality(BakTopBridges(loc.bdg_lower_coord)) = 1
          /\ Cardinality(BakBotBridges(loc.bdg_lower_coord)) = 1

\* C1 (amended): with one turn the core never fails the bridge-clearance
\* check and emits no bridge and no via, only the direct connection that
\* closes the turn; with two turns it emits exactly one crossing, at the
\* top (one arm on the coil layer and one arm on the bridge layer with its
\* two vias), and no bridge at the bottom, where the inner turn is closed
\* by a direct connection on the coil layer.  The older core likewise
\* emits no bridge for one turn and, for two turns, one bridge on each
\* layer, both joining the top breaks of the two turns, neither turn having
\* a bottom break.
C1_Bridges ==
    /\ (IsCore /\ params.n_turns = 1) =>
          /\ err # "bridge_sp"
          /\ CoreBridgeIdx = {}
          /\ vias = <<>>
          /\ Len(paths) <= 1
          /\ \A k \in 1..Len(paths) : Len(paths[k].pts) = 2
    /\ (IsCore /\ params.n_turns = 2 /\ pc = "done") =>
          /\ Cardinality(CoreTopBridges) = 1
          /\ Cardinality(CoreBridgeIdx) = 1
          /\ CoreBotBridges = {}
          /\ Len(vias) = 2
          /\ Len(paths) = 3
          /\ Cardinality({k \in CoreLayIdx : Len(paths[k].pts) = 4
                            /\ CoreIsTop(paths[k].pts[1][2])}) = 1
          /\ Cardinality({k \in CoreLayIdx : Len(paths[k].pts) = 2
                            /\ ~CoreIsTop(paths[k].pts[1][2])}) = 1
    /\ (IsBak /\ params.n_turn = 1 /\ pc = "done") =>
          (BakBridgeSeq = <<>> /\ vias = <<>>)
    /\ (IsBak /\ params.n_turn = 2 /\ pc = "done") =>
          /\ Len(loc.bdg_upper_coord) = 1
          /\ Len(loc.bdg_lower_coord) = 1
          /\ Cardinality(BakTopBridges(BakBridgeSeq)) = 2
          /\ BakBotBridges(BakBridgeSeq) = {}
          /\ BakBreakPts(loc.bot_coord) = {}

\* a two-turn core has been drawn completely
C1_Witness == IsCore /\ params.n_turns = 2 /\ pc = "done" /\ Len(vias) = 2

\* x span of the bottom edge of the innermost turn
InnerSpan == BottomSpan(Last(vertices))

\* the bridge-clearance check has been passed
CorePastBridge ==
    /\ IsCore
    /\ pc \notin {"shape", "outer", "bridge"}
    /\ err \notin {"ind_shape", "term_sp", "bridge_sp"}

\* C2 as stated: for more than one turn the bridge-clearance error is raised
\* exactly when the inner span is below spacing + 3 * width + 2 * width
C2_Original ==
    (IsCore /\ params.n_turns > 1) =>
       /\ err = "bridge_sp" =>
             InnerSpan < params.spacing + 3 * params.width + 2 * params.width
       /\ CorePastBridge =>
             InnerSpan >= params.spacing + 3 * params.width + 2 * params.width

\* C2 (amended): for more than one turn the bridge-clearance error is raised
\* exactly when the inner span is below spacing + 3 * width + 4 * width, and
\* never at or above that threshold
C2_Threshold ==
    (IsCore /\ params.n_turns > 1) =>
       /\ err = "bridge_sp" =>
             InnerSpan < params.spacing + 3 * params.width + 4 * params.width
       /\ CorePastBridge =>
             InnerSpan >= params.spacing + 3 * params.width + 4 * params.width

\* the check fails for a span that is at least spacing + 5 * width
C2_Witness ==
    /\ IsCore /\ params.n_turns > 1 /\ err = "bridge_sp"
    /\ InnerSpan >= params.spacing + 5 * params.width

\* the point pt lies in the box of via k
InVia(pt, k) ==
    LET b == vias[k].bbox
    IN  b[1] <= pt[1] /\ pt[1] <= b[3] /\ b[2] <= pt[2] /\ pt[2] <= b[4]

ViasAt(pt) == {k \in 1..Len(vias) : InVia(pt, k)}

\* C3: every path on the bridge layer has exactly one via at each of its
\* two end points, every via joins lay_id - 1 to lay_id, the paths on the
\* coil layer (crossing arms and direct connections) have no via at their
\* end points, and there are no other vias
C3_BridgeVias ==
    IsCore =>
       /\ \A k \in 1..Len(vias) :
             vias[k].bot = params.lay_id - 1 /\ vias[k].top = params.lay_id
       /\ \A k \in CoreBridgeIdx :
             /\ Cardinality(ViasAt(paths[k].pts[1])) = 1
             /\ Cardinality(ViasAt(Last(paths[k].pts))) = 1
             /\ ViasAt(paths[k].pts[1]) # ViasAt(Last(paths[k].pts))
       /\ \A k \in CoreLayIdx :
             ViasAt(paths[k].pts[1]) = {} /\ ViasAt(Last(paths[k].pts)) = {}
       /\ Len(vias) = 2 * Cardinality(CoreBridgeIdx)
       /\ \A k \in 1..Len(vias) : \E j \in CoreBridgeIdx :
             InVia(paths[j].pts[1], k) \/ InVia(Last(paths[j].pts), k)

\* a core with a bridge at the top, a bridge at the bottom and a direct
\* connection has been drawn
C3_Witness ==
    /\ IsCore /\ pc = "done" /\ Len(vias) = 4
    /\ CoreTopBridges # {} /\ CoreBotBridges # {}
    /\ \E k \in CoreLayIdx : Len(paths[k].pts) = 2

\* C9: when the shape check or a feasibility check of IndCore.draw_layout
\* has failed, no turn instance, no path and no via has been added
C9_NoGeometryOnError ==
    (IsCore /\ err # "none") =>
       /\ pc = "raised"
       /\ err \in {"ind_shape", "term_sp", "bridge_sp", "radius_y"}
       /\ insts = <<>> /\ paths = <<>> /\ vias = <<>>
       /\ turn_coords = <<>>

\* the last of the checks has failed
C9_Witness == IsCore /\ err = "radius_y" /\ pc = "raised"

---------------------------------------------------------------------------
(* Properties of IndTemplate.draw_via and IndTemplate.draw_mulvia          *)

IsDrawVia == prog = "draw_via"
IsDrawMulvia == prog = "draw_mulvia"

\* the vias that join layer i to layer i + 1
ViasOfPair(i) == {k \in 1..Len(vias) : vias[k].bot = i /\ vias[k].top = i + 1}

\* C4: every via joins two layers whose ids differ by exactly 1; draw_via
\* raises ValueError exactly for the other pairs of layers; draw_mulvia
\* (bot, top) with top > bot emits exactly one via for each adjacent pair
\* (i, i + 1), bot <= i < top, and raises ValueError when top <= bot
C4_AdjacentVias ==
    /\ (IsDrawVia \/ IsDrawMulvia) =>
          \A k \in 1..Len(vias) : vias[k].top - vias[k].bot = 1
    /\ (IsDrawVia /\ pc # "call") =>
          /\ err = "ValueError" <=> Abs(params.layid1 - params.layid2) # 1
          /\ err = "ValueError" => vias = <<>>
          /\ err \in {"none", "ValueError"}
    /\ (IsDrawMulvia /\ pc \in {"done", "raised"}) =>
          IF params.layid2 > params.layid1
          THEN /\ pc = "done" /\ err = "none"
               /\ Len(vias) = params.layid2 - params.layid1
               /\ \A i \in params.layid1..(params.layid2 - 1) :
                     Cardinality(ViasOfPair(i)) = 1
          ELSE err = "ValueError" /\ vias = <<>>
    /\ (IsDrawMulvia /\ pc = "stack") =>
          /\ Len(vias) = tidx - params.layid1
          /\ \A i \in params.layid1..(tidx - 1) : Cardinality(ViasOfPair(i)) = 1

\* a stack of two vias has been drawn
C4_Witness == IsDrawMulvia /\ pc = "done" /\ Len(vias) = 2

---------------------------------------------------------------------------
(* Properties of get_octpath_coord                                         *)

OctDone == prog = "get_octpath_coord" /\ pc = "done"

\* the offset of the coil centre, in x and in y
CenterX == Offset(params.radius, params.n_side, params.width)

\* y of the bottom edge of the turn that was returned: edge 0 starts at
\* vertex 0, which lies on it
RetBottomY == ret.path_coord[1][1][2]

\* C5 as stated: for every opening, the lead coordinates of modes 1 and 2
\* lie on the bottom edge and satisfy x1 + x2 = 2 * center_x
C5_LeadSymmetric ==
    (OctDone /\ params.mode \in {1, 2}) =>
       /\ Len(ret.lead_coord) = 2
       /\ ret.lead_coord[1][2] = RetBottomY
       /\ ret.lead_coord[2][2] = RetBottomY
       /\ ret.lead_coord[1][1] + ret.lead_coord[2][1] = 2 * CenterX

\* C6: in mode 0 the segment list has n_side segments, each segment ends
\* where the next one starts and the last one ends where the first starts
C6_ClosedCycle ==
    (OctDone /\ params.mode = 0) =>
       /\ Len(ret.path_coord) = params.n_side
       /\ \A k \in 1..Len(ret.path_coord) :
             /\ Len(ret.path_coord[k]) = 2
             /\ ret.path_coord[k][2]
                  = ret.path_coord[(k % Len(ret.path_coord)) + 1][1]

\* an inner octagonal turn without break has been returned
C6_Witness ==
    /\ OctDone /\ params.mode = 0 /\ params.n_side = 8 /\ params.turn > 0
    /\ Len(ret.path_coord) = 8

\* signed distance from the centre to the bottom edge of turn t of the
\* coil of the call
EdgeDist(t) ==
    CenterX - At(Coord(params.radius, t, params.n_side, params.width,
                       params.spacing), 0)[2]

\* C7 as stated: the turn has n_side vertices, and its edges are closer to
\* the centre than those of the previous turn by exactly width + spacing
C7_RadiusStep ==
    (OctDone /\ params.mode = 0) =>
       /\ Len(ret.path_coord) = params.n_side
       /\ CenterX - RetBottomY = EdgeDist(params.turn)
       /\ params.turn > 0 =>
             EdgeDist(params.turn - 1) - EdgeDist(params.turn)
                = params.width + params.spacing

---------------------------------------------------------------------------
(* Properties of IndTemplate._draw_ind_turn, as the older IndCore calls it *)

\* turn t of the coil got a top / a bottom bridge break
HasTopBreak(t) == At(loc.top_coord, t) # <<>>
HasBotBreak(t) == At(loc.bot_coord, t) # <<>>

\* the mode and the breaks of turn t are those of its position in the coil
ModeOfPosition(t) ==
    LET n == params.n_turn
        m == At(loc.mode, t)
    IN  IF n = 1
        THEN /\ m = (IF params.orient = "R0" THEN 1 ELSE 14)
             /\ loc.lead_coord # <<>>
             /\ ~HasTopBreak(t) /\ ~HasBotBreak(t)
        ELSE IF t = 0
        THEN m = 2 /\ loc.lead_coord # <<>> /\ HasTopBreak(t) /\ ~HasBotBreak(t)
        ELSE IF t = n - 1
        THEN IF n % 2 = 0
             THEN m = 3 /\ HasTopBreak(t) /\ ~HasBotBreak(t)
             ELSE m = 4 /\ ~HasTopBreak(t) /\ HasBotBreak(t)
        ELSE /\ m = (IF t % 2 = 0 THEN 5 ELSE 6)
             /\ HasTopBreak(t) /\ HasBotBreak(t)

\* C8 as stated: every call for a turn 0 <= t < n_turn selects a mode, the
\* one of the turn's position
C8_Original ==
    IsBak =>
       /\ err # "NotImplementedError"
       /\ \A t \in 0..(Len(loc.mode) - 1) : ModeOfPosition(t)

\* C8 (amended): for n_turn = 1 the call selects the lead-only mode of
\* the orientation (mode 1 for R0, mode 14 for R270) and raises
\* NotImplementedError, selecting no mode, for any other orientation; for
\* n_turn > 1 turn 0 gets lead plus top bridge break, the innermost turn
\* one bridge break, at the top for even n_turn and at the bottom for odd
\* n_turn, and every other turn a top and a bottom break, mode 5 for even
\* t and mode 6 for odd t
C8_Modes ==
    IsBak =>
       /\ err = "NotImplementedError" =>
             /\ params.n_turn = 1 /\ params.orient \notin {"R0", "R270"}
             /\ loc.mode = <<>> /\ paths = <<>>
       /\ (params.n_turn = 1 /\ params.orient \notin {"R0", "R270"}) =>
             (loc.mode = <<>> /\ pc \notin {"bridges", "done"})
       /\ Len(loc.top_coord) = Len(loc.mode)
       /\ Len(loc.bot_coord) = Len(loc.mode)
       /\ \A t \in 0..(Len(loc.mode) - 1) : ModeOfPosition(t)
       /\ pc \in {"bridges", "done"} => Len(loc.mode) = params.n_turn

\* all turns of a four-turn coil have got their modes
C8_Witness ==
    IsBak /\ pc = "done" /\ params.n_turn = 4 /\ loc.mode = <<2, 6, 5, 3>>

\* C10 as stated: an orientation other than R0 and R270 is rejected for
\* every turn count, and no geometry is produced for it
C10_Rejected ==
    (IsBak /\ params.orient \notin {"R0", "R270"}) =>
       /\ paths = <<>> /\ vias = <<>>
       /\ pc \notin {"bridges", "done"}

---------------------------------------------------------------------------
(* Properties of the older IndCore.draw_layout                             *)
(* (layout/inductor_bak/ind_core.py)                                       *)

\* the radius of some turn of the coil, after subtracting its pitches of
\* width + spacing, is not positive
BakSomeTurnNotPositive ==
    \E t \in 0..(params.n_turn - 1) :
        params.radius - t * (params.width + params.spacing) <= 0

\* C11 as stated: when the radius of some turn is not positive the older
\* core raises an error and draws nothing
C11_NoNonPositiveTurn ==
    (IsBak /\ BakSomeTurnNotPositive) =>
       /\ paths = <<>> /\ vias = <<>>
       /\ pc \notin {"bridges", "done"}

---------------------------------------------------------------------------
(* Properties of IndTemplate._draw_ind_ring and draw_sqr_guardring         *)
(* (layout/inductor/util.py)                                               *)

IsRing == prog = "_draw_ind_ring"

\* C12 as stated: with n_conn <= 1, zero and negative counts included,
\* _draw_ind_ring raises and no ring is drawn
C12_ConnCountRejected ==
    (IsRing /\ params.n_conn <= 1 /\ pc # "check") =>
        /\ pc = "raised"
        /\ paths = <<>> /\ vias = <<>> /\ loc.ring_arr = <<>>

---------------------------------------------------------------------------
(* Properties of IndTemplate.draw_path and draw_via with an empty list      *)

IsDrawPath == prog = "draw_path"

\* C13 as stated: draw_path or draw_via called with an empty coordinate
\* list never raises and adds no shape, for draw_via whatever the two
\* layer ids are
C13_EmptyIsNoOp ==
    /\ (IsDrawPath /\ params.path_coord.pts = <<>> /\ pc # "call") =>
          (pc = "done" /\ err = "none" /\ paths = <<>> /\ vias = <<>>)
    /\ (IsDrawVia /\ params.via_coord.pts = <<>> /\ pc # "call") =>
          (pc = "done" /\ err = "none" /\ paths = <<>> /\ vias = <<>>)

\* some ring has been drawn by _draw_ind_ring
RingDrawn == IsRing /\ Len(loc.ring_arr) >= 1

\* the position in layer_list of layer lay, 0 when it is not in the list
RingLayerPos(lay) ==
    IF \E k \in 1..Len(params.layer_list) : params.layer_list[k] = lay
    THEN CHOOSE k \in 1..Len(params.layer_list) : params.layer_list[k] = lay
    ELSE 0

\* the vias drawn between layers bot and bot + 1
RingViasBetween(bot) ==
    {k \in 1..Len(vias) : vias[k].bot = bot /\ vias[k].top = bot + 1}

\* some via between layers bot and bot + 1 is centred on the midpoint of
\* segment seg (the midpoint being rounded to the grid)
RingViaAtMid(bot, seg) ==
    \E k \in RingViasBetween(bot) :
        /\ Abs(vias[k].bbox[1] + vias[k].bbox[3] - (seg[1][1] + seg[2][1])) <= 1
        /\ Abs(vias[k].bbox[2] + vias[k].bbox[4] - (seg[1][2] + seg[2][2])) <= 1

\* every segment of every drawn ring on layer lay has a via between layers
\* bot and bot + 1 at its midpoint
RingSegmentsJoined(lay, bot) ==
    \A r \in 1..Len(loc.ring_arr) :
        \A j \in 1..Len(loc.ring_arr[r][RingLayerPos(lay)]) :
            RingViaAtMid(bot, loc.ring_arr[r][RingLayerPos(lay)][j])

\* C14 as stated: the vias between the coil layer and the layer below it
\* are omitted exactly when the coil layer id is odd
C14_Original ==
    (RingDrawn /\ RingLayerPos(params.ind_layid) # 0) =>
        ((RingViasBetween(params.ind_layid - 1) = {}) <=> (params.ind_layid % 2 = 1))

\* C14: the vias between the coil layer and the layer below it are drawn,
\* one at the midpoint of every segment of the coil-layer ring, exactly
\* when the coil layer is in layer_list and its id is odd, and are omitted
\* when it is even; every ring layer that is neither the coil layer nor the
\* layer below it is joined to the layer above it by a via at the midpoint
\* of each of its segments; no via joins the coil layer to the layer above
C14_RingVias ==
    RingDrawn =>
        /\ (RingViasBetween(params.ind_layid - 1) # {}) <=>
              (RingLayerPos(params.ind_layid) # 0 /\ params.ind_layid % 2 = 1)
        /\ (RingLayerPos(params.ind_layid) # 0 /\ params.ind_layid % 2 = 1) =>
              RingSegmentsJoined(params.ind_layid, params.ind_layid - 1)
        /\ \A p \in 1..Len(params.layer_list) :
              LET lay == params.layer_list[p]
              IN  (lay # params.ind_layid /\ lay + 1 # params.ind_layid) =>
                      RingSegmentsJoined(lay, lay)
        /\ RingViasBetween(params.ind_layid) = {}

\* rings are drawn on three layers below and up to an odd coil layer
C14_Witness ==
    /\ RingDrawn /\ pc = "done"
    /\ params.ind_layid % 2 = 1
    /\ Len(params.layer_list) >= 3
    /\ Last(params.layer_list) = params.ind_layid
    /\ RingViasBetween(params.ind_layid - 1) # {}
    /\ RingViasBetween(params.ind_layid - 2) # {}

\* the first call of draw_sqr_guardring (the innermost ring) is over
RingFirstCallOver == IsRing /\ (pc \in {"raised", "done"} \/ tidx >= 1)

\* the segments of the innermost ring on the coil layer
RingInnerCoil == loc.ring_arr[1][RingLayerPos(params.ind_layid)]

\* the breaks of a ring: the segments that do not end where the next one
\* (cyclically) starts
RingGaps(segs) ==
    {k \in 1..Len(segs) : segs[k][2] # segs[(k % Len(segs)) + 1][1]}

\* the width of the break after segment k
RingGapWidth(segs, k) ==
    Abs(segs[k][2][1] - segs[(k % Len(segs)) + 1][1][1])
    + Abs(segs[k][2][2] - segs[(k % Len(segs)) + 1][1][2])

\* C15 as stated: for R0, MY, R180, MX, R90 and R270 the innermost ring on
\* the coil layer is drawn and has exactly one break, as wide as the
\* requested opening
C15_OneGap ==
    (/\ RingFirstCallOver
     /\ params.orient \in {"R0", "MY", "R180", "MX", "R90", "R270"}
     /\ params.n_conn # 1
     /\ LayerListError(params.layer_list) = "none"
     /\ RingLayerPos(params.ind_layid) # 0) =>
        /\ RingDrawn
        /\ Cardinality(RingGaps(RingInnerCoil)) = 1
        /\ \A k \in RingGaps(RingInnerCoil) :
              RingGapWidth(RingInnerCoil, k) = params.opening

SetMax(S) == CHOOSE x \in S : \A y \in S : y <= x

SetMin(S) == CHOOSE x \in S : \A y \in S : x <= y

\* the coordinates, along axis ax (1 for x, 2 for y), of the points of a ring
RingCoords(segs, ax) == {segs[k][e][ax] : k \in 1..Len(segs), e \in 1..2}

\* twice the centre of a ring along axis ax
RingCentre2(segs, ax) == SetMin(RingCoords(segs, ax)) + SetMax(RingCoords(segs, ax))

\* C16 as stated: _draw_ind_ring with turn = k >= 1 that returns has drawn
\* exactly k rings on each layer of layer_list, all with one centre, and
\* the half-length reported for a ring exceeds that of the ring before it
\* by width + spacing
C16_ConcentricRings ==
    (IsRing /\ pc = "done") =>
        /\ Len(loc.ring_arr) = params.turn
        /\ \A r \in 1..Len(loc.ring_arr) :
              Len(loc.ring_arr[r]) = Len(params.layer_list)
        /\ \A r \in 2..Len(loc.ring_arr) :
              \A p \in 1..Len(params.layer_list) : \A ax \in 1..2 :
                  RingCentre2(loc.ring_arr[r][p], ax) = RingCentre2(loc.ring_arr[1][p], ax)
        /\ \A r \in 2..Len(loc.ring_lenarr) :
              loc.ring_lenarr[r] - loc.ring_lenarr[r - 1] = params.width + params.spacing

---------------------------------------------------------------------------
(* Properties of IndWrap._draw_leads and _draw_fill                        *)
(* (layout/inductor/ind_wrap.py)                                           *)

\* _draw_fill has run
FillDone == prog = "IndWrap" /\ pc = "done" /\ loc.fill_specs # <<>>

\* the tiles of grid g, of width fill_w at pitch fill_w + fill_sp, are the
\* cols x rows positions of a grid within region b whose margins on
\* opposite sides differ by at most one unit
GridCentred(b, g, fill_w, fill_sp) ==
    LET cols == FloorDiv(BBoxW(b) + fill_sp, fill_w + fill_sp)
        rows == FloorDiv(BBoxH(b) + fill_sp, fill_w + fill_sp)
        xs == {t[1] : t \in g}
        ys == {t[2] : t \in g}
    IN  /\ Cardinality(g) = cols * rows
        /\ g # {} =>
              /\ Cardinality(xs) = cols /\ Cardinality(ys) = rows
              /\ g = xs \X ys
              /\ \A x \in xs : (x - SetMin(xs)) % (fill_w + fill_sp) = 0
              /\ \A y \in ys : (y - SetMin(ys)) % (fill_w + fill_sp) = 0
              /\ SetMax(xs) - SetMin(xs) = (cols - 1) * (fill_w + fill_sp)
              /\ SetMax(ys) - SetMin(ys) = (rows - 1) * (fill_w + fill_sp)
              /\ \A t \in g : /\ b[1] <= t[1] /\ t[1] + fill_w <= b[3]
                              /\ b[2] <= t[2] /\ t[2] + fill_w <= b[4]
              /\ Abs((SetMin(xs) - b[1]) - (b[3] - (SetMax(xs) + fill_w))) <= 1
              /\ Abs((SetMin(ys) - b[2]) - (b[4] - (SetMax(ys) + fill_w))) <= 1

\* C19: for a W x H region (W, H >= 0), inside the coil or outside it,
\* _draw_fill lays its tiles on a grid of floor((W + fill_sp) / (fill_w +
\* fill_sp)) columns and floor((H + fill_sp) / (fill_w + fill_sp)) rows at
\* pitch fill_w + fill_sp; every grid tile is within the region and the
\* margins on opposite sides differ by at most one unit
C19_FillGrid ==
    FillDone =>
        /\ (ret.bbox_in # <<>> /\ BBoxW(ret.bbox_in) >= 0 /\ BBoxH(ret.bbox_in) >= 0) =>
              GridCentred(ret.bbox_in, ret.grid_in, loc.fill_specs.fill_w, loc.fill_specs.fill_sp)
        /\ (ret.rbbox # <<>> /\ BBoxW(ret.rbbox) >= 0 /\ BBoxH(ret.rbbox) >= 0) =>
              GridCentred(ret.rbbox, ret.grid_out, loc.fill_specs.fill_w, loc.fill_specs.fill_sp)

\* an inside grid of at least two columns and two rows whose left and right
\* margins differ by one unit
C19_Witness ==
    /\ FillDone
    /\ ret.bbox_in # <<>>
    /\ Cardinality({t[1] : t \in ret.grid_in}) >= 2
    /\ Cardinality({t[2] : t \in ret.grid_in}) >= 2
    /\ LET xs == {t[1] : t \in ret.grid_in}
       IN  (ret.bbox_in[3] - (SetMax(xs) + loc.fill_specs.fill_w)) - (SetMin(xs) - ret.bbox_in[1]) = 1

\* the centre line of turn t of the core, as placed by IndWrap
PlacedTurn(t) ==
    [i \in 1..Len(vertices[t + 1]) |-> <<vertices[t + 1][i][1] + loc.dx, vertices[t + 1][i][2] + loc.dy>>]

\* edge k of polygon v, from vertex k to the next one
PolyEdge(v, k) == <<v[k], v[(k % Len(v)) + 1]>>

\* twice the centre of polygon v, whose vertices 1 and Len(v) \div 2 + 1 are
\* opposite
PolyCentre2(v) == <<v[1][1] + v[(Len(v) \div 2) + 1][1], v[1][2] + v[(Len(v) \div 2) + 1][2]>>

\* the cross product (q - p) x (t - p): its sign tells the side of the line
\* pq on which t is, its size is the distance of t from the line times |pq|
Cross(p, q, t) == (q[1] - p[1]) * (t[2] - p[2]) - (q[2] - p[2]) * (t[1] - p[1])

\* the cross product (q - p) x (c2 / 2 - p), doubled
Cross2(p, q, c2) == (q[1] - p[1]) * (c2[2] - 2 * p[2]) - (q[2] - p[2]) * (c2[1] - 2 * p[1])

SqLen(p, q) == (q[1] - p[1]) * (q[1] - p[1]) + (q[2] - p[2]) * (q[2] - p[2])

TileCorners(t, fill_w) ==
    {<<t[1], t[2]>>, <<t[1] + fill_w, t[2]>>, <<t[1], t[2] + fill_w>>, <<t[1] + fill_w, t[2] + fill_w>>}

\* point c is at least width / 2 away from the line of edge e, on the side
\* of the centre of the polygon (inner) or on the other side (~inner)
ClearOfEdge(c, e, c2, width, inner) ==
    \E cr \in {Cross(e[1], e[2], c)} :
        /\ 4 * cr * cr >= width * width * SqLen(e[1], e[2])
        /\ IF inner
           THEN cr * Cross2(e[1], e[2], c2) >= 0
           ELSE cr * Cross2(e[1], e[2], c2) <= 0

\* the tile is wholly inside the inner metal edge of the turn of centre line
\* v: every corner is inside every edge, half a width away or more
TileInside(t, v, fill_w, width) ==
    \A k \in 1..Len(v) : \A e \in {PolyEdge(v, k)} : \A c \in TileCorners(t, fill_w) :
        ClearOfEdge(c, e, PolyCentre2(v), width, TRUE)

\* the tile is wholly outside the outer metal edge of the (convex) turn of
\* centre line v: some edge has the whole tile beyond it, half a width away
\* or more
TileOutside(t, v, fill_w, width) ==
    \E k \in 1..Len(v) : \E e \in {PolyEdge(v, k)} :
        /\ SqLen(e[1], e[2]) > 0
        /\ \A c \in TileCorners(t, fill_w) :
              ClearOfEdge(c, e, PolyCentre2(v), width, FALSE)

RectsOverlap(a, b) ==
    /\ a[1] < b[3] /\ b[1] < a[3]
    /\ a[2] < b[4] /\ b[2] < a[4]

TileRect(t, fill_w) == <<t[1], t[2], t[1] + fill_w, t[2] + fill_w>>

---------------------------------------------------------------------------
(* Properties of round_up                                                  *)

RoundDone == prog = "round_up" /\ pc = "done"

\* C20 as stated: round_up gives the nearest integer, a tie going away from
\* zero, and an integer is returned unchanged
C20_Original ==
    RoundDone =>
        /\ Abs(4 * ret - params.q) <= 2
        /\ (Abs(4 * ret - params.q) = 2) => (Abs(4 * ret) > Abs(params.q))
        /\ (params.q % 4 = 0) => (4 * ret = params.q)

\* C20: round_up gives the integer at or next beyond the value in the
\* direction away from zero (the ceiling of a positive value, the floor of
\* any other), and an integer is returned unchanged
C20_AwayFromZero ==
    RoundDone =>
        /\ (params.q > 0) => (4 * ret >= params.q /\ 4 * (ret - 1) < params.q)
        /\ (params.q <= 0) => (4 * ret <= params.q /\ 4 * (ret + 1) > params.q)
        /\ (params.q % 4 = 0) => (4 * ret = params.q)

\* 2.25 is rounded up to 3, although 2 is nearer
C20_Witness == RoundDone /\ params.q = 9 /\ ret = 3

---------------------------------------------------------------------------
(* Connectivity of the coil drawn by IndCore.draw_layout                   *)

\* the ends of the half turns: the left half of a turn runs from its top
\* end left[0] to its bottom end left[-1], the right half from its bottom
\* end right[0] to its top end right[-1]
CoilEnds ==
    [t : 0..(Len(turn_coords) - 1), side : {"left", "right"},
     end : {"top", "bot"}]

EndPt(e) ==
    LET tc == At(turn_coords, e.t)
    IN  IF e.side = "left"
        THEN (IF e.end = "top" THEN At(tc.left, 0) ELSE Last(tc.left))
        ELSE (IF e.end = "top" THEN Last(tc.right) ELSE At(tc.right, 0))

\* the other end of the same half turn
OtherEnd(e) == [e EXCEPT !.end = IF e.end = "top" THEN "bot" ELSE "top"]

\* the points p and q are the two end points of a path on the coil layer
JoinedOnLayer(p, q) ==
    \E k \in CoreLayIdx :
        \/ paths[k].pts[1] = p /\ Last(paths[k].pts) = q
        \/ paths[k].pts[1] = q /\ Last(paths[k].pts) = p

\* p and q are joined through a path on the bridge layer: a via covers p
\* and one end point of the path, another via covers q and the other end
JoinedByBridge(p, q) ==
    \E k \in CoreBridgeIdx : \E a, b \in 1..Len(vias) :
        /\ a # b
        /\ InVia(p, a) /\ InVia(q, b)
        /\ \/ InVia(paths[k].pts[1], a) /\ InVia(Last(paths[k].pts), b)
           \/ InVia(paths[k].pts[1], b) /\ InVia(Last(paths[k].pts), a)

\* the ends of other half turns or of the same half turn that the emitted
\* paths join to the end e
Partners(e) ==
    {f \in CoilEnds : f # e /\ (\/ JoinedOnLayer(EndPt(e), EndPt(f))
                               \/ JoinedByBridge(EndPt(e), EndPt(f)))}

RECURSIVE CoilWalk(_, _)
\* the half turns met when the coil is entered at the end e: the half turn
\* of e, then the walk continued at the partner of its other end; fuel
\* bounds the walk on a closed loop
CoilWalk(e, fuel) ==
    LET out == OtherEnd(e)
    IN  IF fuel = 0 \/ Cardinality(Partners(out)) # 1
        THEN <<out>>
        ELSE <<out>> \o CoilWalk(CHOOSE f \in Partners(out) : TRUE, fuel - 1)

CoilTermL == [t |-> 0, side |-> "left", end |-> "bot"]
CoilTermR == [t |-> 0, side |-> "right", end |-> "bot"]

\* C21: when IndCore.draw_layout has finished, the two terminals are the
\* bottom ends of the outer turn and are joined to nothing, every other
\* end of a half turn is joined (by a coil-layer path, or by a bridge-layer
\* path with a via at each end) to exactly one other end, and the walk that
\* starts at the left terminal passes through every half turn of every turn
\* exactly once and leaves the coil at the right terminal
C21_OneOpenPath ==
    (IsCore /\ pc = "done") =>
       /\ term_coords = <<EndPt(CoilTermL), EndPt(CoilTermR)>>
       /\ \A e \in CoilEnds :
             Cardinality(Partners(e)) =
                 IF e \in {CoilTermL, CoilTermR} THEN 0 ELSE 1
       /\ \A w \in {CoilWalk(CoilTermL, 2 * params.n_turns)} :
             /\ Len(w) = 2 * params.n_turns
             /\ Last(w) = CoilTermR
             /\ \A i, j \in 1..Len(w) :
                   i # j => <<w[i].t, w[i].side>> # <<w[j].t, w[j].side>>
             /\ \A t \in 0..(params.n_turns - 1) : \A sd \in {"left", "right"} :
                   \E i \in 1..Len(w) : w[i].t = t /\ w[i].side = sd

\* a coil of the largest turn count, with crossings at the top and at the
\* bottom, has been drawn
C21_Witness ==
    /\ IsCore /\ pc = "done" /\ params.n_turns = MaxTurns
    /\ CoreTopBridges # {} /\ CoreBotBridges # {}
    /\ Len(CoilWalk(CoilTermL, 2 * params.n_turns)) = 2 * MaxTurns

---------------------------------------------------------------------------
(* The bridge loop of the older IndCore.draw_layout                        *)

\* all turns of the older core have been drawn
BakTurnsDrawn == IsBak /\ pc \in {"bridges", "done"}

\* C22: once the turns of the older core are drawn, for every i below
\* n_turn - 1 the turns i and i + 1 both carry a top break when i is even
\* and both carry a bottom break when i is odd, so the bridge loop reads no
\* missing value and never fails with a TypeError; when the layout is done
\* there are n_turn - 1 bridges for the coil layer, n_turn - 1 bridges for
\* the bridge layer and 2 * (n_turn - 1) via points
C22_BridgesReadBreaks ==
    /\ IsBak => err # "TypeError"
    /\ BakTurnsDrawn =>
          /\ Len(loc.top_coord) = params.n_turn
          /\ Len(loc.bot_coord) = params.n_turn
          /\ \A i \in 0..(params.n_turn - 2) :
                /\ ~BridgeReadsNone(i)
                /\ i % 2 = 0 => (/\ At(loc.top_coord, i) # <<>>
                                 /\ At(loc.top_coord, i + 1) # <<>>)
                /\ i % 2 = 1 => (/\ At(loc.bot_coord, i) # <<>>
                                 /\ At(loc.bot_coord, i + 1) # <<>>)
          /\ Len(loc.via_coord) = 2 * (params.n_turn - 1)
    /\ (IsBak /\ pc = "done") =>
          /\ Len(loc.bdg_upper_coord) = params.n_turn - 1
          /\ Len(loc.bdg_lower_coord) = params.n_turn - 1
          /\ \A b \in 1..(params.n_turn - 1) :
                /\ \E k \in 1..Len(paths) :
                      paths[k] = Path(params.layid, loc.bdg_upper_coord[b])
                /\ \E k \in 1..Len(paths) :
                      paths[k] = Path(params.layid - 1, loc.bdg_lower_coord[b])
          /\ Len(vias) = 2 * (params.n_turn - 1)

\* a coil of the largest turn count, with bridges read from top breaks and
\* from bottom breaks, is done
C22_Witness ==
    /\ IsBak /\ pc = "done" /\ params.n_turn = MaxTurns
    /\ Len(loc.bdg_upper_coord) = MaxTurns - 1
    /\ \E i \in 0..(MaxTurns - 2) : i % 2 = 1 /\ ~BridgeReadsNone(i)

---------------------------------------------------------------------------
(* The bridge breaks of the turns of the older core                        *)

\* the break b = [left end, right end] has its left end strictly to the
\* left of its right end, at the same height
BreakPositive(b) == b[1][1] < b[2][1] /\ b[1][2] = b[2][2]

\* C23: every top break and every bottom break returned for a turn of the
\* older core has its left end point strictly to the left of its right end
\* point, whichever of the two width formulas produced it
C23_BreakWidthPositive ==
    IsBak =>
       /\ \A t \in 1..Len(loc.top_coord) :
             loc.top_coord[t] # <<>> => BreakPositive(loc.top_coord[t])
       /\ \A t \in 1..Len(loc.bot_coord) :
             loc.bot_coord[t] # <<>> => BreakPositive(loc.bot_coord[t])

---------------------------------------------------------------------------
(* The segment list returned by get_octpath_coord                          *)

\* the number of breaks of a break mode
BreaksOf(mode) ==
    CASE mode = 0 -> 0
      [] mode \in {1, 3, 4, 10, 11, 14} -> 1
      [] OTHER -> 2

\* the places where a segment does not start where the segment before it
\* ended, the first segment following the last one
Discontinuities(segs) ==
    {k \in 1..Len(segs) : segs[k][2] # segs[(k % Len(segs)) + 1][1]}

\* the segment runs anticlockwise around the centre of the coil
Anticlockwise(sg) == Cross(<<CenterX, CenterX>>, sg[1], sg[2]) > 0

\* C24: for a turn of positive radius drawn in one of the modes 0, 1, 2, 3,
\* 4, 5, 6, 10, 11, 12 and 14, every returned segment runs anticlockwise
\* around the centre, and the number of places where a segment does not
\* start at the end of the segment before it is the number of breaks of
\* the mode: none for mode 0, one for modes 1, 3, 4, 10, 11 and 14, two for
\* modes 2, 5, 6 and 12
C24_BreakCount ==
    (/\ OctDone
     /\ params.mode \in (0..6) \cup {10, 11, 12, 14}
     /\ TurnRad(params.radius, params.turn, params.n_side, params.width,
                params.spacing) > 0) =>
       /\ \A k \in 1..Len(ret.path_coord) : Anticlockwise(ret.path_coord[k])
       /\ Cardinality(Discontinuities(ret.path_coord)) = BreaksOf(params.mode)
       /\ Cardinality(Discontinuities(ret.path_coord)) <= 2

---------------------------------------------------------------------------
(* The start points IndTemplate._draw_fill reads from the turns of the     *)
(* older core                                                              *)

\* the vertices of turn t of the older core
BakVertices(t) ==
    Coord(params.radius, t, params.n_side, params.width, params.spacing)

\* entries 0, 1, 3, 4 and 5 of the start points of the segments of turn t
\* are the vertices 0, 1, 3, 4 and 5 of the turn
StartsAreVertices(t) ==
    \A i \in {0, 1, 3, 4, 5} :
        At(FillStartPts(At(loc.path_coord, t)), i) = At(BakVertices(t), i)

\* the box b = (xl, yl, xh, yh) holds the point p
BoxHolds(b, p) == b[1] <= p[1] /\ p[1] <= b[3] /\ b[2] <= p[2] /\ p[2] <= b[4]

\* C25: for an octagonal coil of the older core of any turn count, entries
\* 0, 1, 3, 4 and 5 of the segment start points of the innermost and of the
\* outermost turn are the vertices 0, 1, 3, 4 and 5 of that turn, and the
\* outer keep-out box computed from them holds every vertex of the
\* outermost turn
C25_FillVertices ==
    (IsBak /\ pc = "done" /\ params.n_side = 8) =>
       /\ StartsAreVertices(0)
       /\ StartsAreVertices(params.n_turn - 1)
       /\ \A i \in 0..7 :
             BoxHolds(TemplBBoxOut(FillStartPts(At(loc.path_coord, 0)),
                                   params.width),
                      At(BakVertices(0), i))

---------------------------------------------------------------------------
(* The layer_list check of draw_sqr_guardring                              *)

IsGuard == prog = "draw_sqr_guardring"

\* the list is not empty and each entry is one more than the entry before
ConsecutiveLayers(layer_list) ==
    /\ Len(layer_list) >= 1
    /\ \A k \in 2..Len(layer_list) : layer_list[k] = layer_list[k - 1] + 1

\* C26: when draw_sqr_guardring has been called with a layer_list that is
\* empty or is not a list of consecutive layer ids in increasing order, it
\* has raised the ValueError of the layer_list check and has drawn no path
\* and no via
C26_LayerListRejected ==
    (IsGuard /\ pc # "call" /\ ~ConsecutiveLayers(params.layer_list)) =>
       /\ pc = "raised"
       /\ err \in {"Layer list should not be empty",
                   "All layer should be adjacent, from low to high"}
       /\ paths = <<>> /\ vias = <<>>

---------------------------------------------------------------------------
(* Properties of the spirals of layout/inductor_spiral                     *)

IsSpiralCore == prog = "IndSpiralCore"

\* the segment from p to q is horizontal or vertical
AxisParallel(p, q) == p[1] = q[1] \/ p[2] = q[2]

\* C28: when IndSpiralCore.draw_layout is done (the feasibility assertion
\* has passed), every value the working radius of compute_vertices took is
\* strictly positive, every segment between consecutive vertices is
\* horizontal or vertical, and every vertex lies in the bounding box from
\* (0, 0) to (2 * outer_radius, 2 * outer_radius)
C28_SpiralInBox ==
    (IsSpiralCore /\ pc = "done") =>
       /\ \A k \in 1..Len(loc.radii) : loc.radii[k] > 0
       /\ \A k \in 1..(Len(vertices) - 1) :
             AxisParallel(vertices[k], vertices[k + 1])
       /\ actual_bbox = <<0, 0, 2 * (params.radius + FloorDiv(params.width, 2)),
                          2 * (params.radius + FloorDiv(params.width, 2))>>
       /\ \A k \in 1..Len(vertices) : BoxHolds(actual_bbox, vertices[k])

IsInterleave == prog = "IndInterleave"

\* the distance between the intervals [a1, a2] and [b1, b2] of a line
\* (the end points in any order), 0 when they meet
IntervalGap(a1, a2, b1, b2) ==
    LET lo == SetMax2(SetMin2(a1, a2), SetMin2(b1, b2))
        hi == SetMin2(SetMax2(a1, a2), SetMax2(b1, b2))
    IN  IF lo > hi THEN lo - hi ELSE 0

\* the square of the distance between two horizontal or vertical segments
SegDist2(sa, sb) ==
    LET gx == IntervalGap(sa[1][1], sa[2][1], sb[1][1], sb[2][1])
        gy == IntervalGap(sa[1][2], sa[2][2], sb[1][2], sb[2][2])
    IN  gx * gx + gy * gy

\* C27: when the two cores of IndInterleave are placed (the feasibility
\* assertion has passed), every segment of the spiral XCORE0 and every
\* segment of the rotated spiral XCORE1 are at least width + spacing
\* apart, centre line to centre line
C27_SpiralsApart ==
    (IsInterleave /\ pc \in {"leads", "done"}) =>
       \A a \in 1..Len(insts[1].path_list) : \A b \in 1..Len(insts[2].path_list) :
          SegDist2(insts[1].path_list[a].pts, insts[2].path_list[b].pts)
             >= (params.width + params.spacing) * (params.width + params.spacing)

IsStack == prog = "IndSpiral"

\* the instance of the spiral on layer lay
StackInstOn(lay) == CHOOSE k \in 1..Len(insts) : insts[k].name = lay

\* the outer end and the inner end of the spiral on layer lay, in the
\* coordinates of the parent
StackOuterEnd(lay) == insts[StackInstOn(lay)].path_list[1].pts[1]
StackInnerEnd(lay) == Last(insts[StackInstOn(lay)].path_list).pts[2]

\* the vias between layer lay - 1 and layer lay
StackViasBelow(lay) ==
    {k \in 1..Len(vias) : vias[k].bot = lay - 1 /\ vias[k].top = lay}

\* C29: IndSpiral raises ValueError for every odd layer count and draws
\* nothing; for an even layer count that passes the feasibility assertion
\* the finished layout has one spiral on each layer from bot_lay_id to
\* lay_id, exactly one via between each two adjacent layers of that range
\* and no other via; the via below layer L covers the inner ends of the
\* spirals of L and L - 1 when L is an even number of layers below the top
\* and their outer ends otherwise; the pin 'plus' is on the top layer over
\* the outer end of its spiral and the pin 'minus' on the bottom layer over
\* the outer end of its spiral
C29_SeriesVias ==
    /\ (IsStack /\ (params.lay_id - params.bot_lay_id + 1) % 2 = 1) =>
          /\ pc \in {"check", "raised"}
          /\ pc = "raised" => err = "ValueError"
          /\ insts = <<>> /\ vias = <<>> /\ loc = NoInterLeads
    /\ (IsStack /\ pc = "done") =>
          /\ (params.lay_id - params.bot_lay_id + 1) % 2 = 0
          /\ \A lay \in params.bot_lay_id..params.lay_id :
                Cardinality({k \in 1..Len(insts) : insts[k].name = lay}) = 1
          /\ Len(insts) = SetMax2(params.lay_id - params.bot_lay_id + 1, 0)
          /\ \A k \in 1..Len(vias) :
                /\ vias[k].top = vias[k].bot + 1
                /\ vias[k].bot >= params.bot_lay_id
                /\ vias[k].top <= params.lay_id
          /\ \A lay \in (params.bot_lay_id + 1)..params.lay_id :
                /\ Cardinality(StackViasBelow(lay)) = 1
                /\ \A k \in StackViasBelow(lay) :
                      IF (params.lay_id - lay) % 2 = 0
                      THEN /\ InVia(StackInnerEnd(lay), k)
                           /\ InVia(StackInnerEnd(lay - 1), k)
                      ELSE /\ InVia(StackOuterEnd(lay), k)
                           /\ InVia(StackOuterEnd(lay - 1), k)
          /\ params.lay_id > params.bot_lay_id =>
                /\ Len(loc.pins) = 2
                /\ loc.pins[1].name = "plus" /\ loc.pins[1].lay = params.lay_id
                /\ loc.pins[2].name = "minus" /\ loc.pins[2].lay = params.bot_lay_id
                /\ BoxHolds(loc.rects[1].bbox, StackOuterEnd(params.lay_id))
                /\ BoxHolds(loc.rects[2].bbox, StackOuterEnd(params.bot_lay_id))

\* a stack of four layers, with inner and outer vias, is done
C29_Witness ==
    /\ IsStack /\ pc = "done"
    /\ params.lay_id - params.bot_lay_id + 1 = 4
    /\ Len(vias) = 3 /\ Len(insts) = 4

(***************************************************************************)
(* The order of the stages of EmSim.run_simulation                         *)
(***************************************************************************)
IsEmSim == prog = "EmSim"

\* the emx run ended with return code 0 and its log file present
NportSucceeded == loc.nport_rc = "0" /\ loc.nport_log

\* modelgen ended with return code 0 and both model files present
ModelSucceeded == loc.model_rc = "0" /\ loc.model_files

\* C30: in EmSim.run_simulation model generation is started only after the
\* emx n-port run has ended with return code 0 and its log file present,
\* and the inductance post-processing runs only after model generation has
\* ended with return code 0 and both model files present, so that a stage
\* that fails is the last one to run.
C30_StagesInOrder ==
    IsEmSim =>
       /\ loc.model_started => NportSucceeded
       /\ loc.indcal => ModelSucceeded

===========================================================================
